---- MODULE Spec2Model ----
(***************************************************************************)
(* Model of the safe-zone core of yerevan-fireworks-safe-zones:            *)
(*   src/src/geometry_utils.py   create_forbidden_zone_with_custom_buffers *)
(*   src/src/grid_generator.py   generate_grid_points, filter_safe_points, *)
(*                               thin_points, generate_safe_points         *)
(*   src/src/zones_generator.py  create_zones_from_points,                 *)
(*                               classify_zones_by_size, add_zone_metadata,*)
(*                               create_zones_from_free_space              *)
(*                                                                         *)
(* Geometry.  The plane is abstracted to a horizontal strip cut into       *)
(* columns CellM metres wide: column c spans x in [c*CellM, (c+1)*CellM].  *)
(* An areal geometry is a set of columns; a Polygon is a run of adjacent   *)
(* columns, a MultiPolygon a sequence of Polygons.  The boundary is the    *)
(* part of the strip with 0 <= y <= StripM; buffers of obstacles reach     *)
(* across the whole height of the strip, so an obstacle region is          *)
(* described by its columns alone.  Lengths are metres, areas are m2.      *)
(* Inputs are taken to be in the target CRS already, where                 *)
(* reproject_to_meters returns its argument (geometry_utils.py:31-35).     *)
(***************************************************************************)
EXTENDS Integers, Sequences, FiniteSets, TLC

VARIABLES
    call,                     \* which entry point this run exercises
    \* ---- create_forbidden_zone_with_custom_buffers
    obstacles_dict,           \* sequence of [name, gdf]: a dict in insertion order
    custom_buffers,           \* [isNone, tbl]: the optional override mapping
    fz_pc,                    \* position in the function
    ti, gi,                   \* indices of the two nested loops
    all_buffered_geometries,  \* the list built by the loops
    buffer_attempts,          \* the geometries geom.buffer was called on, in order
    buffer_dists,             \* [name, buffer_dist] of line 69, one per category looped over
    forbidden_union,          \* what unary_union returned
    fz_result,                \* [raised, zone]: what the caller gets
    \* ---- inputs shared by generate_safe_points and create_zones_from_free_space
    boundary,                 \* the columns of boundary_gdf.geometry.unary_union
    forbidden_zone,           \* the forbidden MultiPolygon passed in
    \* ---- generate_safe_points / filter_safe_points / thin_points
    grid_step_m,
    max_output_points,        \* 0 stands for None
    gp_pc,
    grid_points,              \* GeoDataFrame: sequence of rows [label, x, y]
    start_idx,                \* loop variable of the chunk loop
    safe_indices,             \* index labels collected by the chunk loop
    safe_points,
    gp_result,                \* [raised, points]: what the caller gets
    \* ---- thin_points called on its own
    points_gdf,
    max_points,               \* [isNone, v]
    method,
    th_pc,
    thinned,                  \* [raised, points]: the exception raised ("none" if none) and the frame returned
    \* ---- create_zones_from_free_space / create_zones_from_points / classify / metadata
    validity,                 \* [boundary, forbidden]: "valid", "repairable" or "broken"
    min_zone_area_m2,         \* [isNone, v]
    add_metadata,
    classify_size,
    zone_radius_m,
    dissolve,
    boundary_given,           \* whether generate_safe_zones got a boundary_gdf
    merged_geometry,          \* the union handed to the dissolve branch on its own
    zs_pc,
    attempts,                 \* calls of difference made so far
    repaired,                 \* whether buffer(0) was applied to the operands
    free_space,               \* the result of the difference
    zones_list,               \* the candidates extracted from it
    zones,                    \* zones_gdf: sequence of zone rows
    zs_result,                \* [raised, zones]: what the caller gets
    \* ---- forbidden region and free space under two buffer tables
    custom_buffers_raised,    \* custom_buffers with one category's distance raised
    mo_pc,
    free_space_before,        \* free space under custom_buffers
    free_space_after,         \* free space under custom_buffers_raised
    \* ---- osm_loader.get_city_boundary
    max_retries,
    retry_delay,
    geocoder,                 \* what ox.geocode_to_gdf does on its successive calls: "ok" or "fail"
    attempt,                  \* the loop variable
    cb_pc,
    cb_log,                   \* the calls made, in order: "geocode", "sleep"
    cb_result,                \* "boundary", "Exception", or "None" for a return without a value
    \* ---- config.get_utm_crs_for_location
    lon, lat,                 \* the centroid of the boundary in WGS84, whole degrees
    utm_pc,
    epsg_code,
    \* ---- osm_loader.load_all_obstacles and the loaders it calls
    include_sensitive,
    split_sensitive,
    task,                     \* position in the list of tasks
    ld_attempt,               \* the loop variable of the loader being run
    downloads,                \* calls of ox.features_from_polygon made by that loader
    obstacles,                \* the dict built: name -> "features", "empty" or "None"
    lo_pc,
    lo_result,                \* "dict" when the dict is returned, or the exception raised
    \* ---- main.main
    generate_zones,           \* args.generate_zones
    zones_method,             \* args.zones_method
    save_obstacles,           \* args.save_obstacles
    main_pc,
    len_safe_points,          \* len(safe_points)
    len_safe_zones,           \* len(safe_zones)
    output_dir,               \* "unbound" until the local variable is assigned
    stage_raised,             \* what ended the try block: "none" or the exception
    exit_code,                \* the value main returns; -1 while it runs
    \* ---- exporters.export_zones_to_kml
    zones_gdf,
    kml_pc,
    kml_styles,               \* the id of every Style element of the document
    kml_style_urls            \* the styleUrl of every Placemark, in order

fzVars == <<obstacles_dict, custom_buffers, fz_pc, ti, gi,
            all_buffered_geometries, buffer_attempts, buffer_dists, forbidden_union, fz_result>>

inVars == <<boundary, forbidden_zone>>

thVars == <<points_gdf, max_points, method, th_pc, thinned>>

gpVars == <<grid_step_m, max_output_points, gp_pc, grid_points, start_idx,
            safe_indices, safe_points, gp_result, thVars>>

zsVars == <<validity, min_zone_area_m2, add_metadata, classify_size, zone_radius_m,
            dissolve, boundary_given, merged_geometry, zs_pc, attempts, repaired, free_space,
            zones_list, zones, zs_result>>

moVars == <<custom_buffers_raised, mo_pc, free_space_before, free_space_after>>

cbVars == <<max_retries, retry_delay, geocoder, attempt, cb_pc, cb_log, cb_result>>

\* The variables of the loaders and of the command line
utmVars == <<lon, lat, utm_pc, epsg_code>>

loVars == <<include_sensitive, split_sensitive, task, ld_attempt, downloads, obstacles,
            lo_pc, lo_result>>

mainVars == <<generate_zones, zones_method, save_obstacles, main_pc, len_safe_points,
              len_safe_zones, output_dir, stage_raised, exit_code>>

kmlVars == <<zones_gdf, kml_pc, kml_styles, kml_style_urls>>

xpVars == <<mainVars, kmlVars>>

ioVars == <<cbVars, utmVars, loVars, xpVars>>

vars == <<call, fzVars, inVars, gpVars, zsVars, moVars, ioVars>>

(***************************************************************************)
(* Scales and bounds                                                       *)
(***************************************************************************)
DEFAULT_GRID_STEP_M == 10
CellM == DEFAULT_GRID_STEP_M          \* width of a column, metres
StripM == 2 * CellM                   \* height of the strip, metres
MaxGeoms == 2                         \* rows per obstacle GeoDataFrame

(***************************************************************************)
(* Sequence and set helpers                                                *)
(***************************************************************************)
Range(s) == {s[i] : i \in 1..Len(s)}

SetMin(S) == CHOOSE x \in S : \A y \in S : x <= y
SetMax(S) == CHOOSE x \in S : \A y \in S : x >= y

SeqsUpTo(S, n) == UNION {[1..k -> S] : k \in 0..n}

RECURSIVE FlattenSeqs(_)
FlattenSeqs(ss) == IF ss = <<>> THEN <<>> ELSE Head(ss) \o FlattenSeqs(Tail(ss))

(***************************************************************************)
(* Geometry values (shapely)                                               *)
(***************************************************************************)
Polygon(cols) == [type |-> "Polygon", cols |-> cols, geoms |-> <<>>]
MultiPolygonVal(ps) == [type |-> "MultiPolygon", cols |-> {}, geoms |-> ps]
GeometryCollectionVal(gs) == [type |-> "GeometryCollection", cols |-> {}, geoms |-> gs]
LineStringVal == [type |-> "LineString", cols |-> {}, geoms |-> <<>>]
EmptyMultiPolygon == MultiPolygonVal(<<>>)
Raised == [type |-> "raised", cols |-> {}, geoms |-> <<>>]

\* The columns a geometry covers (lines and points cover none).
RECURSIVE CellsOf(_)
CellsOf(g) ==
    IF g.type = "Polygon" THEN g.cols
    ELSE IF g.type \in {"MultiPolygon", "GeometryCollection"}
         THEN UNION {CellsOf(g.geoms[i]) : i \in 1..Len(g.geoms)}
         ELSE {}

\* geom.is_empty
IsEmptyGeom(g) == CellsOf(g) = {} /\ g.type # "LineString"

\* The maximal runs of adjacent columns of a region, left to right.
RECURSIVE Components(_)
Components(S) ==
    IF S = {} THEN <<>>
    ELSE LET lo == SetMin(S)
             hi == SetMax({h \in S : \A c \in lo..h : c \in S})
         IN  <<lo..hi>> \o Components(S \ (lo..hi))

\* The type shapely gives a polygonal result: one part is a Polygon, several
\* a MultiPolygon; an empty result is POLYGON EMPTY or GEOMETRYCOLLECTION
\* EMPTY depending on the GEOS in use, so both are possible outcomes.
AreaResults(S) ==
    LET comps == Components(S)
    IN  IF Len(comps) = 0 THEN {Polygon({}), GeometryCollectionVal(<<>>)}
        ELSE IF Len(comps) = 1 THEN {Polygon(comps[1])}
        ELSE {MultiPolygonVal([i \in 1..Len(comps) |-> Polygon(comps[i])])}

\* shapely.ops.unary_union of a list of geometries
UnaryUnion(gs) == AreaResults(UNION {CellsOf(gs[i]) : i \in 1..Len(gs)})

\* shapely's MultiPolygon(list): empty members are dropped, a MultiPolygon
\* member is refused ("Sequences of multi-polygons are not valid arguments"
\* for a leading one, a TypeError for a later one), there is no flattening.
MultiPolygonCtor(ps) ==
    LET kept == SelectSeq(ps, LAMBDA p : ~IsEmptyGeom(p))
    IN  IF \E i \in 1..Len(kept) : kept[i].type # "Polygon"
        THEN Raised
        ELSE MultiPolygonVal(kept)

(***************************************************************************)
(* Obstacle rows.  A row's geometry is None, or spans the column edges     *)
(* lo..hi (a Point has lo = hi); malformed marks a geometry on which       *)
(* geom.buffer raises.                                                     *)
(***************************************************************************)
Obstacle(t, lo, hi, e, m) == [type |-> t, lo |-> lo, hi |-> hi, empty |-> e, malformed |-> m]

ObstacleSamples ==
    { Obstacle("None", 0, 0, FALSE, FALSE),
      Obstacle("Polygon", 0, 0, TRUE, FALSE),
      Obstacle("Point", 1, 1, FALSE, FALSE),
      Obstacle("Polygon", 9, 10, FALSE, FALSE),
      Obstacle("Polygon", 16, 17, FALSE, TRUE) }

\* geom.buffer(d) for a well-formed geometry: every column within d of it.
\* d <= 0 leaves a Polygon as it is or shrinks it, and a Point empty.
BufferGeom(g, d) ==
    LET k == d \div CellM
    IN  Polygon((g.lo - k)..(g.hi + k - 1))

CategoryNames == {"parking", "sensitive"}

\* get_buffer_distances(), for the categories of the model
DefaultBufferTable == [parking |-> 50, buildings |-> 30]

BufferTableSamples ==
    { [isNone |-> TRUE,  tbl |-> <<>>],
      [isNone |-> FALSE, tbl |-> [parking |-> 10]],
      [isNone |-> FALSE, tbl |-> [parking |-> 0, sensitive |-> 20]] }

DefaultBufferM == 30

\* custom_buffers after lines 54-55
ResolvedBuffers(cb) == IF cb.isNone THEN DefaultBufferTable ELSE cb.tbl

\* Mutant: a category the mapping lacks gets no buffer at all.
BufferDistNoFallback(cb, name) ==
    LET t == ResolvedBuffers(cb)
    IN  IF name \in DOMAIN t THEN t[name] ELSE 0

\* custom_buffers.get(obstacle_type, 30.0)
BufferDist(cb, name) ==
    LET t == ResolvedBuffers(cb)
    IN  IF name \in DOMAIN t THEN t[name] ELSE DefaultBufferM

ObstacleDicts ==
    LET gdfs == SeqsUpTo(ObstacleSamples, MaxGeoms)
        names == {s \in SeqsUpTo(CategoryNames, Cardinality(CategoryNames)) :
                     \A i, j \in 1..Len(s) : i # j => s[i] # s[j]}
    IN  UNION {{[i \in 1..Len(ns) |-> [name |-> ns[i], gdf |-> f[i]]] :
                   f \in [1..Len(ns) -> gdfs]} : ns \in names}

\* Mutant: the row-count test off by one (len(gdf) > 1).
ObstacleItemsOffByOne(d) == SelectSeq(d, LAMBDA e : Len(e.gdf) > 1)

\* obstacle_items: the categories with at least one row
ObstacleItems(d) == SelectSeq(d, LAMBDA e : Len(e.gdf) > 0)

NoPoints == [raised |-> FALSE, points |-> <<>>]

NoZones == [raised |-> FALSE, zones |-> <<>>]

DEFAULT_MIN_ZONE_AREA_M2 == 2000

OSM_MAX_RETRIES == 3

OSM_RETRY_DELAY_S == 5

IdleCityBoundary ==
    /\ max_retries = OSM_MAX_RETRIES
    /\ retry_delay = OSM_RETRY_DELAY_S
    /\ geocoder = <<>>
    /\ attempt = 0
    /\ cb_pc = "idle"
    /\ cb_log = <<>>
    /\ cb_result = "pending"

IdleUtm ==
    /\ lon = 0
    /\ lat = 0
    /\ utm_pc = "idle"
    /\ epsg_code = 0

IdleLoaders ==
    /\ include_sensitive = TRUE
    /\ split_sensitive = TRUE
    /\ task = 1
    /\ ld_attempt = 0
    /\ downloads = 0
    /\ obstacles = <<>>
    /\ lo_pc = "idle"
    /\ lo_result = "pending"

IdleMain ==
    /\ generate_zones = FALSE
    /\ zones_method = "freespace"
    /\ save_obstacles = FALSE
    /\ main_pc = "idle"
    /\ len_safe_points = 0
    /\ len_safe_zones = 0
    /\ output_dir = "unbound"
    /\ stage_raised = "none"
    /\ exit_code = -1

IdleKml ==
    /\ zones_gdf = <<>>
    /\ kml_pc = "idle"
    /\ kml_styles = {}
    /\ kml_style_urls = <<>>

IdleExports == IdleMain /\ IdleKml

IdleIO == IdleCityBoundary /\ IdleUtm /\ IdleLoaders /\ IdleExports

IdleMonotone ==
    /\ custom_buffers_raised = [isNone |-> TRUE, tbl |-> <<>>]
    /\ mo_pc = "idle"
    /\ free_space_before = Polygon({})
    /\ free_space_after = Polygon({})

IdleZones ==
    /\ IdleMonotone
    /\ validity = [boundary |-> "valid", forbidden |-> "valid"]
    /\ min_zone_area_m2 = [isNone |-> FALSE, v |-> DEFAULT_MIN_ZONE_AREA_M2]
    /\ add_metadata = TRUE
    /\ classify_size = TRUE
    /\ zone_radius_m = 0
    /\ dissolve = TRUE
    /\ boundary_given = TRUE
    /\ merged_geometry = Polygon({})
    /\ zs_pc = "idle"
    /\ attempts = 0
    /\ repaired = FALSE
    /\ free_space = Polygon({})
    /\ zones_list = <<>>
    /\ zones = <<>>
    /\ zs_result = NoZones

NotThinned == [raised |-> "none", points |-> <<>>]

IdleThin ==
    /\ points_gdf = <<>>
    /\ max_points = [isNone |-> TRUE, v |-> 0]
    /\ method = "uniform"
    /\ th_pc = "idle"
    /\ thinned = NotThinned

IdlePoints ==
    /\ IdleThin
    /\ grid_step_m = DEFAULT_GRID_STEP_M
    /\ max_output_points = 0
    /\ gp_pc = "idle"
    /\ grid_points = <<>>
    /\ start_idx = 0
    /\ safe_indices = <<>>
    /\ safe_points = <<>>
    /\ gp_result = NoPoints

(***************************************************************************)
(* create_forbidden_zone_with_custom_buffers                               *)
(***************************************************************************)
NoResult == [raised |-> FALSE, zone |-> EmptyMultiPolygon]

InitForbidden ==
    /\ call = "forbidden"
    /\ IdleIO
    /\ obstacles_dict \in ObstacleDicts
    /\ custom_buffers \in BufferTableSamples
    /\ fz_pc = "loop"
    /\ ti = 1
    /\ gi = 1
    /\ all_buffered_geometries = <<>>
    /\ buffer_attempts = <<>>
    /\ buffer_dists = <<>>
    /\ forbidden_union = Polygon({})
    /\ fz_result = NoResult
    /\ boundary = {}
    /\ forbidden_zone = EmptyMultiPolygon
    /\ IdlePoints
    /\ IdleZones

IdleForbidden ==
    /\ obstacles_dict = <<>>
    /\ custom_buffers = [isNone |-> TRUE, tbl |-> <<>>]
    /\ fz_pc = "idle"
    /\ ti = 1
    /\ gi = 1
    /\ all_buffered_geometries = <<>>
    /\ buffer_attempts = <<>>
    /\ buffer_dists = <<>>
    /\ forbidden_union = Polygon({})
    /\ fz_result = NoResult

\* Mutant: a failed expansion throws away what was buffered before it.
TryBufferDropsAll(acc, g, d) == IF g.malformed THEN <<>> ELSE Append(acc, BufferGeom(g, d))

\* try: buffered = geom.buffer(buffer_dist); append -- except: continue
TryBuffer(acc, g, d) == IF g.malformed THEN acc ELSE Append(acc, BufferGeom(g, d))

\* lines 80-86: one row of the inner loop
BufferStep(acc, g, d) ==
    IF g.type # "None" /\ ~g.empty THEN TryBuffer(acc, g, d) ELSE acc

\* One iteration of the inner loop (lines 75-86), moving to the next category
\* when the rows of this one are exhausted (line 68).
BufferNext ==
    /\ fz_pc = "loop"
    /\ LET items == ObstacleItems(obstacles_dict)
       IN  /\ ti <= Len(items)
           /\ LET gdf == items[ti].gdf
                  g == gdf[gi]
                  d == BufferDist(custom_buffers, items[ti].name)
              IN  /\ all_buffered_geometries' = BufferStep(all_buffered_geometries, g, d)
                  /\ buffer_attempts' =
                        IF g.type # "None" /\ ~g.empty
                        THEN Append(buffer_attempts, g) ELSE buffer_attempts
                  /\ buffer_dists' =
                        IF gi = 1
                        THEN Append(buffer_dists, [name |-> items[ti].name, buffer_dist |-> d])
                        ELSE buffer_dists
                  /\ IF gi < Len(gdf)
                     THEN gi' = gi + 1 /\ ti' = ti
                     ELSE gi' = 1 /\ ti' = ti + 1
    /\ UNCHANGED <<inVars, gpVars, zsVars, call, moVars, ioVars, obstacles_dict, custom_buffers, fz_pc, forbidden_union, fz_result>>

\* lines 88-90: nothing was buffered
ReturnEmpty ==
    /\ fz_pc = "loop"
    /\ ti > Len(ObstacleItems(obstacles_dict))
    /\ all_buffered_geometries = <<>>
    /\ fz_pc' = "done"
    /\ fz_result' = [raised |-> FALSE, zone |-> EmptyMultiPolygon]
    /\ UNCHANGED <<inVars, gpVars, zsVars, call, moVars, ioVars, obstacles_dict, custom_buffers, ti, gi,
                   all_buffered_geometries, buffer_attempts, buffer_dists, forbidden_union>>

\* line 95
Merge ==
    /\ fz_pc = "loop"
    /\ ti > Len(ObstacleItems(obstacles_dict))
    /\ all_buffered_geometries # <<>>
    /\ forbidden_union' \in UnaryUnion(all_buffered_geometries)
    /\ fz_pc' = "normalize"
    /\ UNCHANGED <<inVars, gpVars, zsVars, call, moVars, ioVars, obstacles_dict, custom_buffers, ti, gi,
                   all_buffered_geometries, buffer_attempts, buffer_dists, fz_result>>

\* lines 102-103: the members of a collection that are kept
PolygonMembers(u) ==
    SelectSeq(u.geoms, LAMBDA g : g.type \in {"Polygon", "MultiPolygon"})

\* lines 97-110
NormalizeUnion(u) ==
    IF u.type = "Polygon" THEN MultiPolygonCtor(<<u>>)
    ELSE IF u.type = "MultiPolygon" THEN u
    ELSE IF u.type = "GeometryCollection"
         THEN LET polygons == PolygonMembers(u)
              IN  IF polygons # <<>>
                  THEN IF Len(polygons) > 1 THEN MultiPolygonCtor(polygons)
                       ELSE MultiPolygonCtor(<<polygons[1]>>)
                  ELSE EmptyMultiPolygon
         ELSE EmptyMultiPolygon

\* lines 97-113
Normalize ==
    /\ fz_pc = "normalize"
    /\ LET z == NormalizeUnion(forbidden_union)
       IN  fz_result' = IF z = Raised THEN [raised |-> TRUE, zone |-> EmptyMultiPolygon]
                        ELSE [raised |-> FALSE, zone |-> z]
    /\ fz_pc' = "done"
    /\ UNCHANGED <<inVars, gpVars, zsVars, call, moVars, ioVars, obstacles_dict, custom_buffers, ti, gi,
                   all_buffered_geometries, buffer_attempts, buffer_dists, forbidden_union>>

NextForbidden == BufferNext \/ ReturnEmpty \/ Merge \/ Normalize

SpecForbidden == InitForbidden /\ [][NextForbidden]_vars

(***************************************************************************)
(* The normalization alone, applied to every shape a union can take        *)
(***************************************************************************)
MaxMembers == 3

PolyA == Polygon(0..1)
PolyB == Polygon(4..4)
PolyC == Polygon(7..9)

MemberSamples == {PolyA, PolyB, MultiPolygonVal(<<PolyB, PolyC>>), LineStringVal}

UnionShapes ==
    {PolyA, Polygon({}), MultiPolygonVal(<<PolyA, PolyB>>)}
        \cup {GeometryCollectionVal(m) : m \in SeqsUpTo(MemberSamples, MaxMembers)}

InitNormalize ==
    /\ call = "normalize"
    /\ IdleIO
    /\ obstacles_dict = <<>>
    /\ custom_buffers = [isNone |-> TRUE, tbl |-> <<>>]
    /\ fz_pc = "normalize"
    /\ ti = 1
    /\ gi = 1
    /\ all_buffered_geometries = <<>>
    /\ buffer_attempts = <<>>
    /\ buffer_dists = <<>>
    /\ forbidden_union \in UnionShapes
    /\ fz_result = NoResult
    /\ boundary = {}
    /\ forbidden_zone = EmptyMultiPolygon
    /\ IdlePoints
    /\ IdleZones

SpecNormalize == InitNormalize /\ [][Normalize]_vars

(***************************************************************************)
(* grid_generator.py                                                       *)
(***************************************************************************)
ChunkThreshold == 4       \* stands for the 100000 of line 78
ChunkSize == 2            \* stands for the 50000 of line 82

BoundarySamples == {0..5, 1..3, (0..1) \cup (4..7), (0..2) \cup (5..7)}

ForbiddenSamples ==
    { EmptyMultiPolygon,
      MultiPolygonVal(<<Polygon(2..3)>>),
      MultiPolygonVal(<<Polygon(1..1), Polygon(6..6)>>),
      MultiPolygonVal(<<Polygon(-1..8)>>) }

\* --grid-step is any float (main.py:48-53); nothing rejects a negative one
GridStepSamples == {5, 10, 20, -10}

MaxPointsSamples == {0, 2}

\* polygon.area
PolygonArea(p) == Cardinality(p.cols) * CellM * StripM

\* Mutant: the last member is taken, whatever its area.
LastMember(mp) == mp.geoms[Len(mp.geoms)]

\* max(boundary_polygon.geoms, key=lambda p: p.area): the first of the
\* members of largest area
LargestMember(mp) ==
    LET best == SetMax({PolygonArea(mp.geoms[i]) : i \in 1..Len(mp.geoms)})
        first == SetMin({i \in 1..Len(mp.geoms) : PolygonArea(mp.geoms[i]) = best})
    IN  mp.geoms[first]

\* boundary_proj.geometry.unary_union, reduced to one Polygon
\* (grid_generator.py:170-172, zones_generator.py:249-251)
WorkingBoundary(cols) ==
    LET comps == Components(cols)
    IN  IF Len(comps) = 1 THEN Polygon(comps[1])
        ELSE LargestMember(MultiPolygonVal([i \in 1..Len(comps) |-> Polygon(comps[i])]))

\* np.arange(lo, hi, step) for step # 0: ceil((hi - lo) / step) values, none
\* when that is not positive
Arange(lo, hi, step) ==
    LET n == IF step > 0 /\ hi > lo THEN (hi - lo + step - 1) \div step
             ELSE IF step < 0 /\ hi < lo THEN (lo - hi - step - 1) \div (0 - step)
             ELSE 0
    IN  [i \in 1..n |-> lo + (i - 1) * step]

\* boundary.contains(Point(x, y)): strictly inside, not on the outline
Contains(poly, x, y) ==
    /\ poly.cols # {}
    /\ SetMin(poly.cols) * CellM < x
    /\ x < (SetMax(poly.cols) + 1) * CellM
    /\ 0 < y /\ y < StripM

\* A GeoDataFrame with a fresh RangeIndex over the given points
Frame(pts) == [i \in 1..Len(pts) |-> [label |-> i - 1, x |-> pts[i].x, y |-> pts[i].y]]

\* Mutant: the loops nested the other way round, y outermost.
GenerateGridPointsByRows(poly, step) ==
    LET minx == SetMin(poly.cols) * CellM
        maxx == (SetMax(poly.cols) + 1) * CellM
        x_coords == Arange(minx, maxx, step)
        y_coords == Arange(0, StripM, step)
        rows == [j \in 1..Len(y_coords) |->
                    SelectSeq([i \in 1..Len(x_coords) |-> [x |-> x_coords[i], y |-> y_coords[j]]],
                              LAMBDA p : Contains(poly, p.x, p.y))]
    IN  Frame(FlattenSeqs(rows))

\* generate_grid_points (lines 31-53)
GenerateGridPoints(poly, step) ==
    LET minx == SetMin(poly.cols) * CellM
        maxx == (SetMax(poly.cols) + 1) * CellM
        x_coords == Arange(minx, maxx, step)
        y_coords == Arange(0, StripM, step)
        rows == [i \in 1..Len(x_coords) |->
                    SelectSeq([j \in 1..Len(y_coords) |-> [x |-> x_coords[i], y |-> y_coords[j]]],
                              LAMBDA p : Contains(poly, p.x, p.y))]
    IN  Frame(FlattenSeqs(rows))

\* point.intersects(forbidden_zone): the point is in the closed region
Intersects(p, fz) ==
    \E c \in CellsOf(fz) : c * CellM <= p.x /\ p.x <= (c + 1) * CellM

\* point.within(forbidden_zone): the point is in the region's interior
Within(p, fz) ==
    LET F == CellsOf(fz)
    IN  \E c \in F : \/ c * CellM < p.x /\ p.x < (c + 1) * CellM
                     \/ p.x = c * CellM /\ (c - 1) \in F

\* Mutant: only the within test is applied.
SafeMaskWithinOnly(p, fz) == ~Within(p, fz)

\* lines 90-93 and 102-104: ~within & ~intersects
SafeMask(p, fz) == ~Within(p, fz) /\ ~Intersects(p, fz)

\* lines 102-105: the single pass
FilterSinglePass(gdf, fz) == SelectSeq(gdf, LAMBDA r : SafeMask(r, fz))

\* grid_points.iloc[start:end], positions counted from 0
ILoc(gdf, start, end) == SubSeq(gdf, start + 1, end)

\* Mutant: the slice stops one row short of the chunk's end.
ChunkEndShort(start, n) == IF start + ChunkSize < n THEN start + ChunkSize - 1 ELSE n

\* line 87
ChunkEnd(start, n) == IF start + ChunkSize < n THEN start + ChunkSize ELSE n

\* grid_points.loc[labels]: for each label in turn, the rows that carry it
Loc(gdf, labels) ==
    FlattenSeqs([i \in 1..Len(labels) |-> SelectSeq(gdf, LAMBDA r : r.label = labels[i])])

\* Mutant: the stride starts at the step-th row instead of the first.
ILocStrideLate(gdf, step) == [i \in 1..(Len(gdf) \div step) |-> gdf[i * step]]

\* gdf.iloc[::step]
ILocStride(gdf, step) ==
    LET n == (Len(gdf) + step - 1) \div step
    IN  [i \in 1..n |-> gdf[(i - 1) * step + 1]]

\* thin_points(points_gdf, max_points, method='uniform'), max_points >= 1
\* (lines 128-135)
ThinUniform(gdf, maxp) ==
    IF maxp = 0 \/ Len(gdf) <= maxp THEN gdf
    ELSE ILocStride(gdf, Len(gdf) \div maxp)

InitPoints ==
    /\ call = "points"
    /\ IdleIO
    /\ IdleForbidden
    /\ boundary \in BoundarySamples
    /\ forbidden_zone \in ForbiddenSamples
    /\ grid_step_m \in GridStepSamples
    /\ max_output_points \in MaxPointsSamples
    /\ gp_pc = "grid"
    /\ grid_points = <<>>
    /\ start_idx = 0
    /\ safe_indices = <<>>
    /\ safe_points = <<>>
    /\ gp_result = NoPoints
    /\ IdleThin
    /\ IdleZones

\* generate_safe_points lines 168-178
GenerateGrid ==
    /\ gp_pc = "grid"
    /\ LET g == GenerateGridPoints(WorkingBoundary(boundary), grid_step_m)
       IN  /\ grid_points' = g
           /\ IF Len(g) = 0
              THEN gp_pc' = "done" /\ gp_result' = [raised |-> FALSE, points |-> g]
              ELSE gp_pc' = "filter" /\ UNCHANGED gp_result
    /\ UNCHANGED <<zsVars, call, moVars, ioVars, fzVars, inVars, thVars, grid_step_m, max_output_points,
                   start_idx, safe_indices, safe_points>>

\* filter_safe_points lines 100-105: the single pass
FilterAll ==
    /\ gp_pc = "filter"
    /\ Len(grid_points) <= ChunkThreshold
    /\ safe_points' = FilterSinglePass(grid_points, forbidden_zone)
    /\ gp_pc' = "filtered"
    /\ UNCHANGED <<zsVars, call, moVars, ioVars, fzVars, inVars, thVars, grid_step_m, max_output_points,
                   grid_points, start_idx, safe_indices, gp_result>>

\* filter_safe_points lines 86-97: one chunk
FilterChunk ==
    /\ gp_pc = "filter"
    /\ Len(grid_points) > ChunkThreshold
    /\ start_idx < Len(grid_points)
    /\ LET end_idx == ChunkEnd(start_idx, Len(grid_points))
           chunk == ILoc(grid_points, start_idx, end_idx)
           kept == SelectSeq(chunk, LAMBDA r : SafeMask(r, forbidden_zone))
       IN  safe_indices' = safe_indices \o [i \in 1..Len(kept) |-> kept[i].label]
    /\ start_idx' = start_idx + ChunkSize
    /\ UNCHANGED <<zsVars, call, moVars, ioVars, fzVars, inVars, thVars, grid_step_m, max_output_points,
                   gp_pc, grid_points, safe_points, gp_result>>

\* filter_safe_points line 99
FilterCollect ==
    /\ gp_pc = "filter"
    /\ Len(grid_points) > ChunkThreshold
    /\ start_idx >= Len(grid_points)
    /\ safe_points' = Loc(grid_points, safe_indices)
    /\ gp_pc' = "filtered"
    /\ UNCHANGED <<zsVars, call, moVars, ioVars, fzVars, inVars, thVars, grid_step_m, max_output_points,
                   grid_points, start_idx, safe_indices, gp_result>>

\* generate_safe_points lines 182-193
ThinAndReturn ==
    /\ gp_pc = "filtered"
    /\ gp_result' =
          [raised |-> FALSE,
           points |-> IF Len(safe_points) = 0 THEN safe_points
                      ELSE ThinUniform(safe_points, max_output_points)]
    /\ gp_pc' = "done"
    /\ UNCHANGED <<zsVars, call, moVars, ioVars, fzVars, inVars, thVars, grid_step_m, max_output_points,
                   grid_points, start_idx, safe_indices, safe_points>>

NextPoints == GenerateGrid \/ FilterAll \/ FilterChunk \/ FilterCollect \/ ThinAndReturn

SpecPoints == InitPoints /\ [][NextPoints]_vars

(***************************************************************************)
(* thin_points called on its own                                           *)
(***************************************************************************)
MaxThinPoints == 6        \* rows of points_gdf
MaxThinTarget == 3        \* largest max_points

\* Safe points as filter_safe_points leaves them: the index labels are those
\* of the grid, no longer consecutive.
ThinFrames ==
    {[i \in 1..n |-> [label |-> 2 * i - 1, x |-> DEFAULT_GRID_STEP_M * i, y |-> DEFAULT_GRID_STEP_M]] :
        n \in 0..MaxThinPoints}

ThinTargetSamples ==
    {[isNone |-> TRUE, v |-> 0]} \cup {[isNone |-> FALSE, v |-> m] : m \in 0..MaxThinTarget}

MethodSamples == {"uniform", "random", "nearest"}

\* points_gdf.sample(n=n, random_state=42): n distinct rows; which rows, and in
\* which order, is fixed by the seed and left open here.
Sample(gdf, n) ==
    {[i \in 1..n |-> gdf[f[i]]] :
        f \in {g \in [1..n -> 1..Len(gdf)] : \A i, j \in 1..n : i # j => g[i] # g[j]}}

\* thin_points (lines 128-142): the outcomes of one call
ThinPoints(gdf, maxp, m) ==
    IF maxp.isNone \/ Len(gdf) <= maxp.v
    THEN {[raised |-> "none", points |-> gdf]}
    ELSE IF m = "uniform"
         THEN IF maxp.v = 0
              THEN {[raised |-> "ZeroDivisionError", points |-> <<>>]}
              ELSE {[raised |-> "none", points |-> ILocStride(gdf, Len(gdf) \div maxp.v)]}
    ELSE IF m = "random"
         THEN {[raised |-> "none", points |-> pts] : pts \in Sample(gdf, maxp.v)}
    ELSE {[raised |-> "ValueError", points |-> <<>>]}

InitThin ==
    /\ call = "thin"
    /\ IdleIO
    /\ IdleForbidden
    /\ boundary = {}
    /\ forbidden_zone = EmptyMultiPolygon
    /\ grid_step_m = DEFAULT_GRID_STEP_M
    /\ max_output_points = 0
    /\ gp_pc = "idle"
    /\ grid_points = <<>>
    /\ start_idx = 0
    /\ safe_indices = <<>>
    /\ safe_points = <<>>
    /\ gp_result = NoPoints
    /\ points_gdf \in ThinFrames
    /\ max_points \in ThinTargetSamples
    /\ method \in MethodSamples
    /\ th_pc = "call"
    /\ thinned = NotThinned
    /\ IdleZones

ThinCall ==
    /\ th_pc = "call"
    /\ thinned' \in ThinPoints(points_gdf, max_points, method)
    /\ th_pc' = "done"
    /\ UNCHANGED <<call, moVars, ioVars, fzVars, inVars, zsVars, grid_step_m, max_output_points, gp_pc,
                   grid_points, start_idx, safe_indices, safe_points, gp_result,
                   points_gdf, max_points, method>>

SpecThin == InitThin /\ [][ThinCall]_vars

(***************************************************************************)
(* zones_generator.py                                                      *)
(***************************************************************************)
MinAreaSamples ==
    { [isNone |-> TRUE, v |-> 0],
      [isNone |-> FALSE, v |-> 400],
      [isNone |-> FALSE, v |-> 1600],
      [isNone |-> FALSE, v |-> DEFAULT_MIN_ZONE_AREA_M2] }

ValiditySamples == [boundary : {"valid", "repairable", "broken"},
                    forbidden : {"valid", "repairable", "broken"}]

ZoneBoundarySamples == BoundarySamples \cup {0..11}

NoMeta == [set |-> FALSE, perimeter_m |-> 0, compact_num |-> 0, compact_den |-> 1,
           centroid_nan |-> FALSE, centroid_x2 |-> 0, centroid_y2 |-> 0]

\* A row of zones_gdf: zone_id 0 and size_class "" stand for a column not set.
ZoneRow(geom, area) ==
    [geometry |-> geom, area_m2 |-> area, zone_id |-> 0, size_class |-> "", meta |-> NoMeta]

\* zones_gdf['area_m2'] = zones_gdf.geometry.area
WithArea(geoms) == [i \in 1..Len(geoms) |-> ZoneRow(geoms[i], PolygonArea(geoms[i]))]

\* Mutant: the handler retries without repairing anything.
RepairNothing(v) == v

\* buffer(0): repairs a self-intersection; a geometry the engine cannot
\* read (non-finite coordinates) stays unusable.
Repair(v) == IF v = "repairable" THEN "valid" ELSE v

\* Whether boundary.difference(forbidden) raises on operands in these states.
DifferenceRaises(vb, vf) == vb # "valid" \/ vf # "valid"

\* Mutant: the overlap is kept instead of being taken away.
DifferenceKeepsOverlap(b, fz) == AreaResults(CellsOf(b) \cap CellsOf(fz))

\* boundary_polygon.difference(forbidden_zone), when it does not raise
Difference(b, fz) == AreaResults(CellsOf(b) \ CellsOf(fz))

\* Mutant: the members of a MultiPolygon difference lose their last one.
ExtractZonesDropsLast(fs) ==
    IF fs.type = "Polygon" THEN <<fs>>
    ELSE IF fs.type = "MultiPolygon" THEN SubSeq(fs.geoms, 1, Len(fs.geoms) - 1)
    ELSE <<>>

\* Mutant: the members of a collection are kept as they are, not unpacked.
ExtractZonesKeepsNested(fs) ==
    IF fs.type = "Polygon" THEN <<fs>>
    ELSE IF fs.type = "MultiPolygon" THEN fs.geoms
    ELSE IF fs.type = "GeometryCollection"
         THEN SelectSeq(fs.geoms, LAMBDA g : g.type \in {"Polygon", "MultiPolygon"})
         ELSE <<>>

\* lines 265-280: the candidate list
ExtractZones(fs) ==
    IF fs.type = "Polygon" THEN <<fs>>
    ELSE IF fs.type = "MultiPolygon" THEN fs.geoms
    ELSE IF fs.type = "GeometryCollection"
         THEN FlattenSeqs([i \in 1..Len(fs.geoms) |->
                 IF fs.geoms[i].type = "MultiPolygon" THEN fs.geoms[i].geoms
                 ELSE IF fs.geoms[i].type = "Polygon" THEN <<fs.geoms[i]>>
                 ELSE <<>>])
         ELSE <<>>

\* Mutant: the comparison is strict (area_m2 > min_zone_area_m2).
AreaFilterStrict(zs, minArea) == SelectSeq(zs, LAMBDA z : z.area_m2 > minArea)

\* zones[zones['area_m2'] >= min_zone_area_m2]  (lines 70, 295)
AreaFilter(zs, minArea) == SelectSeq(zs, LAMBDA z : z.area_m2 >= minArea)

\* zones['zone_id'] = range(1, len(zones) + 1)  (lines 77, 302)
AssignZoneIds(zs) == [i \in 1..Len(zs) |-> [zs[i] EXCEPT !.zone_id = i]]

\* Mutant: the thresholds are inclusive at the top (area_m2 <= ...).
ClassifySizeInclusive(area_m2) ==
    IF area_m2 <= 1000 THEN "very_small"
    ELSE IF area_m2 <= 5000 THEN "small"
    ELSE IF area_m2 <= 10000 THEN "medium"
    ELSE IF area_m2 <= 50000 THEN "large"
    ELSE "very_large"

\* classify_size (lines 109-119)
ClassifySize(area_m2) ==
    IF area_m2 < 1000 THEN "very_small"
    ELSE IF area_m2 < 5000 THEN "small"
    ELSE IF area_m2 < 10000 THEN "medium"
    ELSE IF area_m2 < 50000 THEN "large"
    ELSE "very_large"

\* classify_zones_by_size (lines 104-128); every non-empty zones_gdf of the
\* model carries area_m2
ClassifyZonesBySize(zs) ==
    IF Len(zs) = 0 THEN zs
    ELSE [i \in 1..Len(zs) |-> [zs[i] EXCEPT !.size_class = ClassifySize(zs[i].area_m2)]]

\* geometry.length of a Polygon: its outline
PolygonPerimeter(p) ==
    IF p.cols = {} THEN 0 ELSE 2 * (Cardinality(p.cols) * CellM + StripM)

\* lines 150-159.  compactness is pi * compact_num / compact_den, and NaN when
\* both are 0; the centroid is held doubled, and is NaN for an empty Polygon.
MetaOf(z) ==
    LET per == PolygonPerimeter(z.geometry)
        e == z.geometry.cols = {}
    IN  [set |-> TRUE, perimeter_m |-> per,
         compact_num |-> 4 * z.area_m2, compact_den |-> per * per,
         centroid_nan |-> e,
         centroid_x2 |-> IF e THEN 0
                         ELSE (SetMin(z.geometry.cols) + SetMax(z.geometry.cols) + 1) * CellM,
         centroid_y2 |-> IF e THEN 0 ELSE StripM]

\* Mutant: the rows come back in reverse order.
AddZoneMetadataReversed(zs) ==
    IF Len(zs) = 0 THEN zs
    ELSE [i \in 1..Len(zs) |-> [zs[Len(zs) + 1 - i] EXCEPT !.meta = MetaOf(zs[Len(zs) + 1 - i])]]

\* add_zone_metadata (lines 145-163)
AddZoneMetadata(zs) ==
    IF Len(zs) = 0 THEN zs
    ELSE [i \in 1..Len(zs) |-> [zs[i] EXCEPT !.meta = MetaOf(zs[i])]]

InitFreeSpace ==
    /\ call = "free_space"
    /\ IdleIO
    /\ IdleMonotone
    /\ IdleForbidden
    /\ IdlePoints
    /\ boundary \in ZoneBoundarySamples
    /\ forbidden_zone \in ForbiddenSamples
    /\ validity \in ValiditySamples
    /\ min_zone_area_m2 \in MinAreaSamples
    /\ add_metadata \in BOOLEAN
    /\ classify_size \in BOOLEAN
    /\ zone_radius_m = 0
    /\ dissolve = TRUE
    /\ boundary_given = TRUE
    /\ merged_geometry = Polygon({})
    /\ zs_pc = "difference"
    /\ attempts = 0
    /\ repaired = FALSE
    /\ free_space = Polygon({})
    /\ zones_list = <<>>
    /\ zones = <<>>
    /\ zs_result = NoZones

zsInputs == <<validity, min_zone_area_m2, add_metadata, classify_size, zone_radius_m,
              dissolve, boundary_given, merged_geometry>>

\* lines 257-258: the first attempt
DifferenceFirst ==
    /\ zs_pc = "difference"
    /\ attempts' = attempts + 1
    /\ IF DifferenceRaises(validity.boundary, validity.forbidden)
       THEN zs_pc' = "except" /\ UNCHANGED free_space
       ELSE /\ free_space' \in Difference(WorkingBoundary(boundary), forbidden_zone)
            /\ zs_pc' = "extract"
    /\ UNCHANGED <<call, moVars, ioVars, fzVars, inVars, gpVars, zsInputs, repaired, zones_list, zones, zs_result>>

\* lines 259-262: the handler repairs both operands and tries once more; a
\* failure here is not caught and reaches the caller
DifferenceRetry ==
    /\ zs_pc = "except"
    /\ repaired' = TRUE
    /\ attempts' = attempts + 1
    /\ IF DifferenceRaises(Repair(validity.boundary), Repair(validity.forbidden))
       THEN /\ zs_pc' = "done"
            /\ zs_result' = [raised |-> TRUE, zones |-> <<>>]
            /\ UNCHANGED free_space
       ELSE /\ free_space' \in Difference(WorkingBoundary(boundary), forbidden_zone)
            /\ zs_pc' = "extract"
            /\ UNCHANGED zs_result
    /\ UNCHANGED <<call, moVars, ioVars, fzVars, inVars, gpVars, zsInputs, zones_list, zones>>

\* lines 264-290
Extract ==
    /\ zs_pc = "extract"
    /\ zones_list' = ExtractZones(free_space)
    /\ IF zones_list' = <<>>
       THEN /\ zs_pc' = "done"
            /\ zs_result' = [raised |-> FALSE, zones |-> <<>>]
            /\ UNCHANGED zones
       ELSE /\ zones' = WithArea(zones_list')
            /\ zs_pc' = "filter"
            /\ UNCHANGED zs_result
    /\ UNCHANGED <<call, moVars, ioVars, fzVars, inVars, gpVars, zsInputs, attempts, repaired, free_space>>

\* lines 292-302
FilterAndNumber ==
    /\ zs_pc = "filter"
    /\ LET kept == IF min_zone_area_m2.isNone THEN zones
                   ELSE AreaFilter(zones, min_zone_area_m2.v)
       IN  IF Len(kept) = 0
           THEN /\ zones' = kept
                /\ zs_pc' = "done"
                /\ zs_result' = [raised |-> FALSE, zones |-> kept]
           ELSE /\ zones' = AssignZoneIds(kept)
                /\ zs_pc' = "augment"
                /\ UNCHANGED zs_result
    /\ UNCHANGED <<call, moVars, ioVars, fzVars, inVars, gpVars, zsInputs, attempts, repaired,
                   free_space, zones_list>>

\* lines 314-324
Augment ==
    /\ zs_pc = "augment"
    /\ LET c == IF classify_size THEN ClassifyZonesBySize(zones) ELSE zones
           m == IF add_metadata THEN AddZoneMetadata(c) ELSE c
       IN  /\ zones' = m
           /\ zs_result' = [raised |-> FALSE, zones |-> m]
    /\ zs_pc' = "done"
    /\ UNCHANGED <<call, moVars, ioVars, fzVars, inVars, gpVars, zsInputs, attempts, repaired,
                   free_space, zones_list>>

NextFreeSpace == DifferenceFirst \/ DifferenceRetry \/ Extract \/ FilterAndNumber \/ Augment

SpecFreeSpace == InitFreeSpace /\ [][NextFreeSpace]_vars

\* The extraction and what follows it, on every shape a difference can take
InitExtract ==
    /\ call = "extract"
    /\ IdleIO
    /\ IdleMonotone
    /\ IdleForbidden
    /\ IdlePoints
    /\ boundary = {}
    /\ forbidden_zone = EmptyMultiPolygon
    /\ validity = [boundary |-> "valid", forbidden |-> "valid"]
    /\ min_zone_area_m2 \in MinAreaSamples
    /\ add_metadata \in BOOLEAN
    /\ classify_size \in BOOLEAN
    /\ zone_radius_m = 0
    /\ dissolve = TRUE
    /\ boundary_given = TRUE
    /\ merged_geometry = Polygon({})
    /\ zs_pc = "extract"
    /\ attempts = 1
    /\ repaired = FALSE
    /\ free_space \in UnionShapes
    /\ zones_list = <<>>
    /\ zones = <<>>
    /\ zs_result = NoZones

NextExtract == Extract \/ FilterAndNumber \/ Augment

SpecExtract == InitExtract /\ [][NextExtract]_vars

(***************************************************************************)
(* create_zones_from_points and generate_safe_zones                        *)
(***************************************************************************)
ZoneRadiusSamples == {10, 20}

\* The safe-point sets generate_safe_points produces on a one-row lattice.
SafePointSamples ==
    {FilterSinglePass(GenerateGridPoints(WorkingBoundary(b), CellM), f) :
        b \in ZoneBoundarySamples, f \in ForbiddenSamples}

\* point.buffer(r): the columns the disc of radius r around the point
\* reaches into
PointBuffer(p, r) ==
    IF r <= 0 THEN Polygon({})
    ELSE Polygon(((p.x - r) \div CellM)..(-((-(p.x + r)) \div CellM) - 1))

\* lines 44-58: the zones of the dissolved union
DissolvedZones(merged) ==
    IF merged.type = "Polygon" THEN <<merged>>
    ELSE IF merged.type = "MultiPolygon" THEN merged.geoms
    ELSE <<>>

InitPointZones ==
    /\ call = "point_zones"
    /\ IdleIO
    /\ IdleMonotone
    /\ IdleThin
    /\ IdleForbidden
    /\ boundary = {}
    /\ forbidden_zone = EmptyMultiPolygon
    /\ grid_step_m = DEFAULT_GRID_STEP_M
    /\ max_output_points = 0
    /\ gp_pc = "idle"
    /\ grid_points = <<>>
    /\ start_idx = 0
    /\ safe_indices = <<>>
    /\ safe_points \in SafePointSamples
    /\ gp_result = NoPoints
    /\ validity = [boundary |-> "valid", forbidden |-> "valid"]
    /\ min_zone_area_m2 \in MinAreaSamples
    /\ add_metadata \in BOOLEAN
    /\ classify_size \in BOOLEAN
    /\ zone_radius_m \in ZoneRadiusSamples
    /\ dissolve \in BOOLEAN
    /\ boundary_given \in BOOLEAN
    /\ merged_geometry = Polygon({})
    /\ zs_pc = "buffer_points"
    /\ attempts = 0
    /\ repaired = FALSE
    /\ free_space = Polygon({})
    /\ zones_list = <<>>
    /\ zones = <<>>
    /\ zs_result = NoZones

\* create_zones_from_points on the points filter_safe_points keeps for a
\* boundary and a forbidden zone (main.py:158-191)
InitPointMethod ==
    /\ call = "point_method"
    /\ IdleIO
    /\ IdleMonotone
    /\ IdleThin
    /\ IdleForbidden
    /\ boundary \in ZoneBoundarySamples
    /\ forbidden_zone \in ForbiddenSamples
    /\ grid_step_m = DEFAULT_GRID_STEP_M
    /\ max_output_points = 0
    /\ gp_pc = "idle"
    /\ grid_points = <<>>
    /\ start_idx = 0
    /\ safe_indices = <<>>
    /\ safe_points = FilterSinglePass(GenerateGridPoints(WorkingBoundary(boundary), CellM),
                                      forbidden_zone)
    /\ gp_result = NoPoints
    /\ validity = [boundary |-> "valid", forbidden |-> "valid"]
    /\ min_zone_area_m2 \in MinAreaSamples
    /\ add_metadata \in BOOLEAN
    /\ classify_size \in BOOLEAN
    /\ zone_radius_m \in ZoneRadiusSamples
    /\ dissolve \in BOOLEAN
    /\ boundary_given \in BOOLEAN
    /\ merged_geometry = Polygon({})
    /\ zs_pc = "buffer_points"
    /\ attempts = 0
    /\ repaired = FALSE
    /\ free_space = Polygon({})
    /\ zones_list = <<>>
    /\ zones = <<>>
    /\ zs_result = NoZones

InitDissolve ==
    /\ call = "dissolve"
    /\ IdleIO
    /\ IdleMonotone
    /\ IdleForbidden
    /\ IdlePoints
    /\ boundary = {}
    /\ forbidden_zone = EmptyMultiPolygon
    /\ validity = [boundary |-> "valid", forbidden |-> "valid"]
    /\ min_zone_area_m2 = [isNone |-> TRUE, v |-> 0]
    /\ add_metadata = FALSE
    /\ classify_size = FALSE
    /\ zone_radius_m \in ZoneRadiusSamples
    /\ dissolve = TRUE
    /\ boundary_given = FALSE
    /\ merged_geometry \in UnionShapes
    /\ zs_pc = "dissolve"
    /\ attempts = 0
    /\ repaired = FALSE
    /\ free_space = Polygon({})
    /\ zones_list = <<>>
    /\ zones = <<>>
    /\ zs_result = NoZones

\* create_zones_from_points lines 46-58 on a given union
DissolveCall ==
    /\ zs_pc = "dissolve"
    /\ zones_list' = DissolvedZones(merged_geometry)
    /\ zs_pc' = "point_filter"
    /\ UNCHANGED <<call, moVars, ioVars, fzVars, inVars, gpVars, zsInputs, attempts, repaired,
                   free_space, zones, zs_result>>

\* create_zones_from_points lines 35-65
BuildPointZones ==
    /\ zs_pc = "buffer_points"
    /\ IF Len(safe_points) = 0
       THEN /\ zs_pc' = "done"
            /\ zs_result' = [raised |-> FALSE, zones |-> <<>>]
            /\ UNCHANGED zones_list
       ELSE /\ LET buffered_zones ==
                       [i \in 1..Len(safe_points) |-> PointBuffer(safe_points[i], zone_radius_m)]
               IN  IF dissolve
                   THEN \E merged \in UnaryUnion(buffered_zones) :
                            zones_list' = DissolvedZones(merged)
                   ELSE zones_list' = buffered_zones
            /\ zs_pc' = "point_filter"
            /\ UNCHANGED zs_result
    /\ UNCHANGED <<call, moVars, ioVars, fzVars, inVars, gpVars, zsInputs, attempts, repaired, free_space, zones>>

\* create_zones_from_points lines 67-89, and generate_safe_zones lines 201-203
PointFilterAndNumber ==
    /\ zs_pc = "point_filter"
    /\ LET withArea == WithArea(zones_list)
           kept == IF ~min_zone_area_m2.isNone /\ Len(withArea) > 0
                   THEN AreaFilter(withArea, min_zone_area_m2.v)
                   ELSE withArea
       IN  IF Len(kept) = 0
           THEN /\ zones' = kept
                /\ zs_pc' = "done"
                /\ zs_result' = [raised |-> FALSE, zones |-> kept]
           ELSE /\ zones' = AssignZoneIds(kept)
                /\ zs_pc' = "point_augment"
                /\ UNCHANGED zs_result
    /\ UNCHANGED <<call, moVars, ioVars, fzVars, inVars, gpVars, zsInputs, attempts, repaired,
                   free_space, zones_list>>

\* generate_safe_zones lines 205-215
PointAugment ==
    /\ zs_pc = "point_augment"
    /\ LET c == IF classify_size THEN ClassifyZonesBySize(zones) ELSE zones
           m == IF add_metadata /\ boundary_given THEN AddZoneMetadata(c) ELSE c
       IN  /\ zones' = m
           /\ zs_result' = [raised |-> FALSE, zones |-> m]
    /\ zs_pc' = "done"
    /\ UNCHANGED <<call, moVars, ioVars, fzVars, inVars, gpVars, zsInputs, attempts, repaired,
                   free_space, zones_list>>

NextPointZones == BuildPointZones \/ PointFilterAndNumber \/ PointAugment

SpecPointZones == InitPointZones /\ [][NextPointZones]_vars

\* The point method after the filter
SpecPointMethod == InitPointMethod /\ [][NextPointZones]_vars

\* The dissolve branch applied to every shape a union can take
NextDissolve == DissolveCall \/ PointFilterAndNumber \/ PointAugment

SpecDissolve == InitDissolve /\ [][NextDissolve]_vars

\* Both zone builders
InitZones == InitFreeSpace \/ InitPointZones

NextZones == NextFreeSpace \/ NextPointZones

SpecZones == InitZones /\ [][NextZones]_vars

(***************************************************************************)
(* classify_zones_by_size called on its own                                *)
(***************************************************************************)
MaxAreaOffset == 12

SizeThresholds == {0, 1000, 5000, 10000, 50000}

AreaSamples ==
    {a \in {t + d : t \in SizeThresholds, d \in (-MaxAreaOffset)..MaxAreaOffset} : a >= 0}

InitClassify ==
    /\ call = "classify"
    /\ IdleIO
    /\ IdleMonotone
    /\ IdleForbidden
    /\ boundary = {}
    /\ forbidden_zone = EmptyMultiPolygon
    /\ IdlePoints
    /\ validity = [boundary |-> "valid", forbidden |-> "valid"]
    /\ min_zone_area_m2 = [isNone |-> TRUE, v |-> 0]
    /\ add_metadata = FALSE
    /\ classify_size = TRUE
    /\ zone_radius_m = 0
    /\ dissolve = TRUE
    /\ boundary_given = FALSE
    /\ merged_geometry = Polygon({})
    /\ zs_pc = "classify"
    /\ attempts = 0
    /\ repaired = FALSE
    /\ free_space = Polygon({})
    /\ zones_list = <<>>
    /\ \E a \in AreaSamples : zones = <<ZoneRow(Polygon({}), a)>>
    /\ zs_result = NoZones

\* classify_zones_by_size (lines 104-128)
ClassifyCall ==
    /\ zs_pc = "classify"
    /\ zones' = ClassifyZonesBySize(zones)
    /\ zs_result' = [raised |-> FALSE, zones |-> zones']
    /\ zs_pc' = "done"
    /\ UNCHANGED <<call, moVars, ioVars, fzVars, inVars, gpVars, zsInputs, attempts, repaired,
                   free_space, zones_list>>

SpecClassify == InitClassify /\ [][ClassifyCall]_vars

(***************************************************************************)
(* The forbidden region and the free space as functions of their inputs,   *)
(* applied to one obstacle dictionary under two buffer tables              *)
(***************************************************************************)
MaxRaisedGeoms == 1       \* rows per obstacle GeoDataFrame in this comparison

RaiseSamples == {10, 30}

\* The buffered geometries of one category (lines 75-86)
BufferCategory(gdf, d) == FlattenSeqs([k \in 1..Len(gdf) |-> BufferStep(<<>>, gdf[k], d)])

\* all_buffered_geometries after the loops (lines 63-86)
BufferAll(dict, cb) ==
    LET items == ObstacleItems(dict)
    IN  FlattenSeqs([i \in 1..Len(items) |->
            BufferCategory(items[i].gdf, BufferDist(cb, items[i].name))])

\* create_forbidden_zone_with_custom_buffers (lines 88-113): the zones it can return
ForbiddenZones(dict, cb) ==
    LET l == BufferAll(dict, cb)
    IN  IF l = <<>> THEN {EmptyMultiPolygon}
        ELSE {NormalizeUnion(u) : u \in UnaryUnion(l)}

\* zones_generator.py:249-258 on valid operands
FreeSpaces(b, fz) == Difference(WorkingBoundary(b), fz)

\* The table with the distance of category c raised by delta
RaiseBuffer(cb, c, delta) ==
    LET t == ResolvedBuffers(cb)
    IN  [isNone |-> FALSE,
         tbl |-> [n \in DOMAIN t \cup {c} |->
                    IF n = c THEN BufferDist(cb, c) + delta ELSE t[n]]]

RaisedDicts ==
    {d \in ObstacleDicts : \A i \in 1..Len(d) : Len(d[i].gdf) <= MaxRaisedGeoms}

InitMonotone ==
    /\ call = "monotone"
    /\ IdleIO
    /\ obstacles_dict \in RaisedDicts
    /\ custom_buffers \in BufferTableSamples
    /\ \E c \in CategoryNames, delta \in RaiseSamples :
          custom_buffers_raised = RaiseBuffer(custom_buffers, c, delta)
    /\ fz_pc = "idle"
    /\ ti = 1
    /\ gi = 1
    /\ all_buffered_geometries = <<>>
    /\ buffer_attempts = <<>>
    /\ buffer_dists = <<>>
    /\ forbidden_union = Polygon({})
    /\ fz_result = NoResult
    /\ boundary \in BoundarySamples
    /\ forbidden_zone = EmptyMultiPolygon
    /\ IdlePoints
    /\ validity = [boundary |-> "valid", forbidden |-> "valid"]
    /\ min_zone_area_m2 = [isNone |-> FALSE, v |-> DEFAULT_MIN_ZONE_AREA_M2]
    /\ add_metadata = TRUE
    /\ classify_size = TRUE
    /\ zone_radius_m = 0
    /\ dissolve = TRUE
    /\ boundary_given = TRUE
    /\ merged_geometry = Polygon({})
    /\ zs_pc = "idle"
    /\ attempts = 0
    /\ repaired = FALSE
    /\ free_space = Polygon({})
    /\ zones_list = <<>>
    /\ zones = <<>>
    /\ zs_result = NoZones
    /\ mo_pc = "call"
    /\ free_space_before = Polygon({})
    /\ free_space_after = Polygon({})

\* Both runs: the forbidden region, then the difference
MonotoneCall ==
    /\ mo_pc = "call"
    /\ \E fz \in ForbiddenZones(obstacles_dict, custom_buffers) :
          free_space_before' \in FreeSpaces(boundary, fz)
    /\ \E fz \in ForbiddenZones(obstacles_dict, custom_buffers_raised) :
          free_space_after' \in FreeSpaces(boundary, fz)
    /\ mo_pc' = "done"
    /\ UNCHANGED <<call, ioVars, fzVars, inVars, gpVars, zsVars, custom_buffers_raised>>

SpecMonotone == InitMonotone /\ [][MonotoneCall]_vars

(***************************************************************************)
(* Both pipelines that reduce the boundary to its working member            *)
(***************************************************************************)
InitBoundaryUsers == InitPoints \/ InitFreeSpace

NextBoundaryUsers == NextPoints \/ NextFreeSpace

SpecBoundaryUsers == InitBoundaryUsers /\ [][NextBoundaryUsers]_vars

(***************************************************************************)
(* osm_loader.get_city_boundary                                            *)
(***************************************************************************)
MaxRetriesBound == 4      \* largest max_retries

\* Everything outside the loaders and the command line at rest
IdleCore ==
    /\ IdleForbidden
    /\ boundary = {}
    /\ forbidden_zone = EmptyMultiPolygon
    /\ IdlePoints
    /\ IdleZones

InitCityBoundary ==
    /\ call = "city_boundary"
    /\ IdleCore
    /\ IdleUtm
    /\ IdleLoaders
    /\ IdleExports
    /\ max_retries \in 0..MaxRetriesBound
    /\ retry_delay \in {0, OSM_RETRY_DELAY_S}
    /\ geocoder \in [1..MaxRetriesBound -> {"ok", "fail"}]
    /\ attempt = 0
    /\ cb_pc = "loop"
    /\ cb_log = <<>>
    /\ cb_result = "pending"

\* One iteration of the loop of lines 48-64
GeocodeAttempt ==
    /\ cb_pc = "loop"
    /\ attempt < max_retries
    /\ IF geocoder[attempt + 1] = "ok"
       THEN /\ cb_log' = Append(cb_log, "geocode")
            /\ cb_result' = "boundary"
            /\ cb_pc' = "done"
            /\ UNCHANGED attempt
       ELSE IF attempt < max_retries - 1
            THEN /\ cb_log' = cb_log \o <<"geocode", "sleep">>
                 /\ attempt' = attempt + 1
                 /\ UNCHANGED <<cb_result, cb_pc>>
            ELSE /\ cb_log' = Append(cb_log, "geocode")
                 /\ cb_result' = "Exception"
                 /\ cb_pc' = "done"
                 /\ UNCHANGED attempt
    /\ UNCHANGED <<call, fzVars, inVars, gpVars, zsVars, moVars, xpVars, utmVars, loVars, max_retries, retry_delay, geocoder>>

\* range(max_retries) is exhausted: the function ends without a return statement
GeocodeLoopEnds ==
    /\ cb_pc = "loop"
    /\ attempt >= max_retries
    /\ cb_result' = "None"
    /\ cb_pc' = "done"
    /\ UNCHANGED <<call, fzVars, inVars, gpVars, zsVars, moVars, xpVars, utmVars, loVars, max_retries, retry_delay, geocoder,
                   attempt, cb_log>>

NextCityBoundary == GeocodeAttempt \/ GeocodeLoopEnds

SpecCityBoundary == InitCityBoundary /\ [][NextCityBoundary]_vars

(***************************************************************************)
(* config.get_utm_crs_for_location                                         *)
(***************************************************************************)
LatitudeSamples == {-90, -45, -1, 0, 1, 40, 90}

\* int(x / d) for d > 0: truncation towards zero
IntDiv(x, d) == IF x >= 0 THEN x \div d ELSE 0 - ((0 - x) \div d)

\* lines 521-531: the number in the EPSG string returned
UtmEpsg(lo, la) ==
    LET utm_zone == IntDiv(lo + 180, 6) + 1
    IN  IF la >= 0 THEN 32600 + utm_zone ELSE 32700 + utm_zone

InitUtm ==
    /\ call = "utm"
    /\ IdleCore
    /\ IdleCityBoundary
    /\ IdleLoaders
    /\ IdleExports
    /\ lon \in -180..180
    /\ lat \in LatitudeSamples
    /\ utm_pc = "call"
    /\ epsg_code = 0

UtmCall ==
    /\ utm_pc = "call"
    /\ epsg_code' = UtmEpsg(lon, lat)
    /\ utm_pc' = "done"
    /\ UNCHANGED <<call, fzVars, inVars, gpVars, zsVars, moVars, xpVars, cbVars, loVars, lon, lat>>

SpecUtm == InitUtm /\ [][UtmCall]_vars

(***************************************************************************)
(* osm_loader.load_all_obstacles and the six loaders                       *)
(***************************************************************************)
MaxLoaderRetries == 2     \* largest max_retries given to load_all_obstacles

DedicatedLoaders == <<"buildings", "roads", "parking", "railways", "industrial">>

\* The names of get_category_configs(): the five loaded on their own and, for
\* the others, two of them
CategoryConfigNames == Range(DedicatedLoaders) \cup {"hospitals", "waterways"}

\* tasks (lines 504-508)
Tasks == IF include_sensitive THEN Append(DedicatedLoaders, "sensitive") ELSE DedicatedLoaders

\* obstacles[name] = value
SetItem(d, name, value) == [n \in DOMAIN d \cup {name} |-> IF n = name THEN value ELSE d[n]]

\* obstacles.pop(name)
PopItem(d, name) == [n \in DOMAIN d \ {name} |-> d[n]]

\* obstacles.update(other)
UpdateDict(d, other) == [n \in DOMAIN d \cup DOMAIN other |-> IF n \in DOMAIN other THEN other[n] ELSE d[n]]

\* split_sensitive_by_category (lines 395-470): the dicts it can return for
\* a dataset with features
SplitSensitiveByCategory(exclude_categories) ==
    [(CategoryConfigNames \ exclude_categories) -> {"features", "empty"}]

InitLoaders ==
    /\ call = "load_all_obstacles"
    /\ IdleCore
    /\ IdleUtm
    /\ IdleExports
    /\ max_retries \in 0..MaxLoaderRetries
    /\ retry_delay = OSM_RETRY_DELAY_S
    /\ geocoder = <<>>
    /\ attempt = 0
    /\ cb_pc = "idle"
    /\ cb_log = <<>>
    /\ cb_result = "pending"
    /\ include_sensitive \in BOOLEAN
    /\ split_sensitive \in BOOLEAN
    /\ task = 1
    /\ ld_attempt = 0
    /\ downloads = 0
    /\ obstacles = <<>>
    /\ lo_pc = "load"
    /\ lo_result = "pending"

\* One iteration of a loader's loop (load_buildings lines 83-108 and the same
\* lines of the other five), with obstacles[name] = loader_func() when the
\* loader returns
LoaderAttempt ==
    /\ lo_pc = "load"
    /\ task <= Len(Tasks)
    /\ ld_attempt < max_retries
    /\ \E outcome \in {"features", "empty", "fail"} :
          IF outcome # "fail"
          THEN /\ obstacles' = SetItem(obstacles, Tasks[task], outcome)
               /\ task' = task + 1 /\ ld_attempt' = 0 /\ downloads' = 0
          ELSE IF ld_attempt < max_retries - 1
               THEN /\ ld_attempt' = ld_attempt + 1 /\ downloads' = downloads + 1
                    /\ UNCHANGED <<obstacles, task>>
               ELSE /\ obstacles' = SetItem(obstacles, Tasks[task], "empty")
                    /\ task' = task + 1 /\ ld_attempt' = 0 /\ downloads' = 0
    /\ UNCHANGED <<call, fzVars, inVars, gpVars, zsVars, moVars, xpVars, cbVars, utmVars,
                   include_sensitive, split_sensitive, lo_pc, lo_result>>

\* range(max_retries) is exhausted: the loader ends without a return statement
LoaderLoopEnds ==
    /\ lo_pc = "load"
    /\ task <= Len(Tasks)
    /\ ld_attempt >= max_retries
    /\ obstacles' = SetItem(obstacles, Tasks[task], "None")
    /\ task' = task + 1
    /\ UNCHANGED <<call, fzVars, inVars, gpVars, zsVars, moVars, xpVars, cbVars, utmVars,
                   include_sensitive, split_sensitive, ld_attempt, downloads, lo_pc, lo_result>>

\* Lines 517-532: the split of the sensitive areas, the total and the return.
\* len() of None raises TypeError.
FinishLoad ==
    /\ lo_pc = "load"
    /\ task > Len(Tasks)
    /\ \E merged \in
            IF include_sensitive /\ "sensitive" \in DOMAIN obstacles
            THEN LET sensitive_all == obstacles["sensitive"]
                     rest == PopItem(obstacles, "sensitive")
                 IN  IF split_sensitive /\ sensitive_all = "None"
                     THEN {[raised |-> TRUE, dict |-> rest]}
                     ELSE IF split_sensitive /\ sensitive_all = "features"
                          THEN {[raised |-> FALSE, dict |-> UpdateDict(rest, sp)] :
                                   sp \in SplitSensitiveByCategory(Range(DedicatedLoaders))}
                          ELSE {[raised |-> FALSE,
                                 dict |-> SetItem(rest, "sensitive", sensitive_all)]}
            ELSE {[raised |-> FALSE, dict |-> obstacles]} :
          /\ obstacles' = merged.dict
          /\ lo_result' = IF merged.raised \/ \E n \in DOMAIN merged.dict : merged.dict[n] = "None"
                          THEN "TypeError" ELSE "dict"
    /\ lo_pc' = "done"
    /\ UNCHANGED <<call, fzVars, inVars, gpVars, zsVars, moVars, xpVars, cbVars, utmVars,
                   include_sensitive, split_sensitive, task, ld_attempt, downloads>>

NextLoaders == LoaderAttempt \/ LoaderLoopEnds \/ FinishLoad

SpecLoaders == InitLoaders /\ [][NextLoaders]_vars

(***************************************************************************)
(* main.main: the stages and the exit status                               *)
(***************************************************************************)
MaxMainCount == 2         \* largest number of safe points, and of zones, in main

\* How a call made inside the try block ends
StageOutcomes == {"ok", "Exception", "KeyboardInterrupt"}

InitMain ==
    /\ call = "main"
    /\ IdleCore
    /\ IdleCityBoundary
    /\ IdleUtm
    /\ IdleLoaders
    /\ IdleKml
    /\ generate_zones \in BOOLEAN
    /\ zones_method \in {"freespace", "points"}
    /\ save_obstacles \in BOOLEAN
    /\ main_pc = "boundary"
    /\ len_safe_points = 0
    /\ len_safe_zones = 0
    /\ output_dir = "unbound"
    /\ stage_raised = "none"
    /\ exit_code = -1

\* The except clauses (lines 230-236)
Except(e) ==
    /\ main_pc' = "exit"
    /\ stage_raised' = e
    /\ exit_code' = IF e = "KeyboardInterrupt" THEN 130 ELSE 1

\* [1/5] lines 136-141: get_city_boundary and get_utm_crs_for_location
MainBoundary ==
    /\ main_pc = "boundary"
    /\ \E o \in StageOutcomes :
          IF o = "ok"
          THEN main_pc' = "obstacles" /\ UNCHANGED <<stage_raised, exit_code>>
          ELSE Except(o)
    /\ UNCHANGED <<call, fzVars, inVars, gpVars, zsVars, moVars, cbVars, utmVars, loVars, kmlVars,
                   generate_zones, zones_method, save_obstacles, len_safe_points,
                   len_safe_zones, output_dir>>

\* [2/5] lines 143-148: load_all_obstacles
MainObstacles ==
    /\ main_pc = "obstacles"
    /\ \E o \in StageOutcomes :
          IF o = "ok"
          THEN main_pc' = "forbidden" /\ UNCHANGED <<stage_raised, exit_code>>
          ELSE Except(o)
    /\ UNCHANGED <<call, fzVars, inVars, gpVars, zsVars, moVars, cbVars, utmVars, loVars, kmlVars,
                   generate_zones, zones_method, save_obstacles, len_safe_points,
                   len_safe_zones, output_dir>>

\* [3/5] lines 150-156: create_forbidden_zone_with_custom_buffers
MainForbiddenZone ==
    /\ main_pc = "forbidden"
    /\ \E o \in StageOutcomes :
          IF o = "ok"
          THEN main_pc' = "points" /\ UNCHANGED <<stage_raised, exit_code>>
          ELSE Except(o)
    /\ UNCHANGED <<call, fzVars, inVars, gpVars, zsVars, moVars, cbVars, utmVars, loVars, kmlVars,
                   generate_zones, zones_method, save_obstacles, len_safe_points,
                   len_safe_zones, output_dir>>

\* [4/5] lines 158-169
MainSafePoints ==
    /\ main_pc = "points"
    /\ \E o \in StageOutcomes :
          IF o = "ok"
          THEN \E n \in 0..MaxMainCount :
                  /\ len_safe_points' = n
                  /\ IF n = 0
                     THEN main_pc' = "exit" /\ exit_code' = 1
                     ELSE /\ main_pc' = IF generate_zones THEN "zones" ELSE "export"
                          /\ UNCHANGED exit_code
                  /\ UNCHANGED stage_raised
          ELSE Except(o) /\ UNCHANGED len_safe_points
    /\ UNCHANGED <<call, fzVars, inVars, gpVars, zsVars, moVars, cbVars, utmVars, loVars, kmlVars,
                   generate_zones, zones_method, save_obstacles, len_safe_zones, output_dir>>

\* [4.5/5] lines 171-194
MainZones ==
    /\ main_pc = "zones"
    /\ \E o \in StageOutcomes :
          IF o = "ok"
          THEN \E n \in 0..MaxMainCount :
                  /\ len_safe_zones' = n
                  /\ main_pc' = IF n = 0 THEN "save_obstacles" ELSE "export"
                  /\ UNCHANGED <<stage_raised, exit_code>>
          ELSE Except(o) /\ UNCHANGED len_safe_zones
    /\ UNCHANGED <<call, fzVars, inVars, gpVars, zsVars, moVars, cbVars, utmVars, loVars, kmlVars,
                   generate_zones, zones_method, save_obstacles, len_safe_points, output_dir>>

\* [5/5] lines 195-218: output_dir is assigned, then the exports are made
MainExport ==
    /\ main_pc = "export"
    /\ output_dir' = "bound"
    /\ \E o \in StageOutcomes :
          IF o = "ok"
          THEN main_pc' = "save_obstacles" /\ UNCHANGED <<stage_raised, exit_code>>
          ELSE Except(o)
    /\ UNCHANGED <<call, fzVars, inVars, gpVars, zsVars, moVars, cbVars, utmVars, loVars, kmlVars,
                   generate_zones, zones_method, save_obstacles, len_safe_points,
                   len_safe_zones>>

\* lines 220-228: reading a local variable that was never assigned raises
\* UnboundLocalError, which except Exception catches
MainSaveObstacles ==
    /\ main_pc = "save_obstacles"
    /\ IF ~save_obstacles
       THEN main_pc' = "exit" /\ exit_code' = 0 /\ UNCHANGED stage_raised
       ELSE IF output_dir = "unbound"
            THEN Except("UnboundLocalError")
            ELSE \E o \in StageOutcomes :
                    IF o = "ok"
                    THEN main_pc' = "exit" /\ exit_code' = 0 /\ UNCHANGED stage_raised
                    ELSE Except(o)
    /\ UNCHANGED <<call, fzVars, inVars, gpVars, zsVars, moVars, cbVars, utmVars, loVars, kmlVars,
                   generate_zones, zones_method, save_obstacles, len_safe_points,
                   len_safe_zones, output_dir>>

NextMain == MainBoundary \/ MainObstacles \/ MainForbiddenZone \/ MainSafePoints
               \/ MainZones \/ MainExport \/ MainSaveObstacles

SpecMain == InitMain /\ [][NextMain]_vars

(***************************************************************************)
(* exporters.export_zones_to_kml: the styles and the style references      *)
(***************************************************************************)
MaxKmlZones == 3          \* rows of the zones GeoDataFrame exported

\* One area in each step of classify_size, m2
KmlAreaSamples == {600, 2000, 7000, 20000, 60000}

\* A Python string, as the sequence of its characters
Str(name) ==
    CASE name = "very_small" -> <<"v", "e", "r", "y", "_", "s", "m", "a", "l", "l">>
      [] name = "small" -> <<"s", "m", "a", "l", "l">>
      [] name = "medium" -> <<"m", "e", "d", "i", "u", "m">>
      [] name = "large" -> <<"l", "a", "r", "g", "e">>
      [] name = "very_large" -> <<"v", "e", "r", "y", "_", "l", "a", "r", "g", "e">>
      [] name = "Small" -> <<"S", "m", "a", "l", "l">>
      [] name = "Medium" -> <<"M", "e", "d", "i", "u", "m">>
      [] name = "Large" -> <<"L", "a", "r", "g", "e">>
      [] name = "Very Large" -> <<"V", "e", "r", "y", " ", "L", "a", "r", "g", "e">>
      [] name = "style_" -> <<"s", "t", "y", "l", "e", "_">>
      [] name = "#style_" -> <<"#", "s", "t", "y", "l", "e", "_">>

\* s.replace(old, new) for single characters
StrReplace(s, old, new) == [i \in 1..Len(s) |-> IF s[i] = old THEN new ELSE s[i]]

\* The keys of the styles dict (lines 351-356)
KmlStyleKeys == {"Small", "Medium", "Large", "Very Large"}

\* id=f'style_{size_class.replace(" ", "_")}' (line 359)
KmlStyleId(size_class) == Str("style_") \o StrReplace(Str(size_class), " ", "_")

\* f"#style_{row['size_class'].replace(' ', '_')}" (line 388)
KmlStyleUrl(size_class) == Str("#style_") \o StrReplace(Str(size_class), " ", "_")

\* The zones main hands over: classified by classify_zones_by_size
KmlRows ==
    UNION {[1..n -> {[area_m2 |-> a, size_class |-> ClassifySize(a)] : a \in KmlAreaSamples}] :
              n \in 1..MaxKmlZones}

InitKml ==
    /\ call = "kml"
    /\ IdleCore
    /\ IdleCityBoundary
    /\ IdleUtm
    /\ IdleLoaders
    /\ IdleMain
    /\ zones_gdf \in KmlRows
    /\ kml_pc = "export"
    /\ kml_styles = {}
    /\ kml_style_urls = <<>>

\* export_zones_to_kml lines 351-388
ExportZonesToKml ==
    /\ kml_pc = "export"
    /\ kml_styles' = {KmlStyleId(k) : k \in KmlStyleKeys}
    /\ kml_style_urls' = [i \in 1..Len(zones_gdf) |-> KmlStyleUrl(zones_gdf[i].size_class)]
    /\ kml_pc' = "done"
    /\ UNCHANGED <<call, fzVars, inVars, gpVars, zsVars, moVars, cbVars, utmVars, loVars, mainVars,
                   zones_gdf>>

SpecKml == InitKml /\ [][ExportZonesToKml]_vars

(***************************************************************************)
(* Every entry point                                                       *)
(***************************************************************************)
Init == InitForbidden \/ InitNormalize \/ InitPoints \/ InitThin \/ InitFreeSpace \/ InitPointZones
           \/ InitMonotone \/ InitDissolve \/ InitExtract
           \/ InitCityBoundary \/ InitUtm \/ InitLoaders
           \/ InitPointMethod \/ InitMain \/ InitKml
           \/ InitClassify

Next == NextForbidden \/ NextPoints \/ ThinCall \/ NextFreeSpace \/ NextPointZones \/ ClassifyCall
           \/ MonotoneCall \/ DissolveCall \/ NextCityBoundary \/ UtmCall
           \/ NextLoaders \/ NextMain \/ ExportZonesToKml

Spec == Init /\ [][Next]_vars

(***************************************************************************)
(* Claims                                                                  *)
(***************************************************************************)
\* The rows of a category that are expanded successfully.
GoodRows(gdf) ==
    {i \in 1..Len(gdf) : gdf[i].type # "None" /\ ~gdf[i].empty /\ ~gdf[i].malformed}

\* The set of buffered geometries the obstacle dictionary denotes.
BufferedSet ==
    UNION {{BufferGeom(e.gdf[i], BufferDist(custom_buffers, e.name)) : i \in GoodRows(e.gdf)} :
              e \in Range(obstacles_dict)}

RegionOf(gs) == UNION {CellsOf(g) : g \in gs}

\* C1: the forbidden region returned is exactly the union of buffer(g, d(c))
\* over every successfully expanded non-null, non-empty geometry g of every
\* category c; it is the MultiPolygon of that region's parts, whatever the
\* order of categories and rows, and merging the same buffered set again
\* gives the same region.
C1_ForbiddenIsUnionOfBuffers ==
    (call = "forbidden" /\ fz_pc = "done") =>
        /\ ~fz_result.raised
        /\ fz_result.zone.type = "MultiPolygon"
        /\ CellsOf(fz_result.zone) = RegionOf(BufferedSet)
        /\ LET comps == Components(RegionOf(BufferedSet))
           IN  fz_result.zone.geoms = [i \in 1..Len(comps) |-> Polygon(comps[i])]
        /\ Range(all_buffered_geometries) = BufferedSet
        /\ \A u \in UnaryUnion(all_buffered_geometries) :
              CellsOf(NormalizeUnion(u)) = CellsOf(fz_result.zone)

\* C1 witness: two categories, each with a row that is buffered, giving a
\* forbidden region of two parts.
C1_Witness ==
    /\ call = "forbidden" /\ fz_pc = "done"
    /\ Len(obstacles_dict) = 2
    /\ \A i \in 1..2 : GoodRows(obstacles_dict[i].gdf) # {}
    /\ Len(fz_result.zone.geoms) = 2

\* The rows geom.buffer is called on: the non-null, non-empty ones, in order.
AttemptedRows(d) ==
    FlattenSeqs([i \in 1..Len(d) |->
        SelectSeq(d[i].gdf, LAMBDA g : g.type # "None" /\ ~g.empty)])

\* C8: a geometry whose expansion fails is skipped without raising: every
\* other non-null, non-empty geometry of its category and of the other
\* categories is buffered and lies in the forbidden region, and null or
\* empty geometries are never handed to buffer.
C8_FailedGeometrySkippedOnly ==
    (call = "forbidden" /\ fz_pc = "done") =>
        /\ ~fz_result.raised
        /\ buffer_attempts = AttemptedRows(obstacles_dict)
        /\ \A e \in Range(obstacles_dict) : \A i \in GoodRows(e.gdf) :
              /\ BufferGeom(e.gdf[i], BufferDist(custom_buffers, e.name))
                     \in Range(all_buffered_geometries)
              /\ CellsOf(BufferGeom(e.gdf[i], BufferDist(custom_buffers, e.name)))
                     \subseteq CellsOf(fz_result.zone)

\* C8 witness: a category whose first row fails to expand and whose second
\* row is buffered, next to another category with a buffered row.
C8_Witness ==
    /\ call = "forbidden" /\ fz_pc = "done"
    /\ Len(obstacles_dict) = 2
    /\ Len(obstacles_dict[1].gdf) = 2
    /\ obstacles_dict[1].gdf[1].malformed
    /\ GoodRows(obstacles_dict[1].gdf) = {2}
    /\ GoodRows(obstacles_dict[2].gdf) # {}
    /\ Len(all_buffered_geometries) >= 2

\* The Polygon and MultiPolygon members of a union, MultiPolygons unpacked.
FlatPolygons(u) ==
    IF u.type = "Polygon" THEN <<u>>
    ELSE IF u.type = "MultiPolygon" THEN u.geoms
    ELSE FlattenSeqs([i \in 1..Len(u.geoms) |->
            IF u.geoms[i].type = "Polygon" THEN <<u.geoms[i]>>
            ELSE IF u.geoms[i].type = "MultiPolygon" THEN u.geoms[i].geoms
            ELSE <<>>])

\* C9: the union is normalized to a MultiPolygon in every case and never
\* raises: a Polygon gives a one-member MultiPolygon, a MultiPolygon is kept,
\* a mixed collection keeps its Polygon and MultiPolygon members with nested
\* MultiPolygons unpacked into the flat member list, and nothing polygonal
\* gives the empty MultiPolygon.
C9_NormalizedToFlatMultiPolygon ==
    (call = "normalize" /\ fz_pc = "done") =>
        /\ ~fz_result.raised
        /\ fz_result.zone =
              MultiPolygonVal(SelectSeq(FlatPolygons(forbidden_union),
                                        LAMBDA p : ~IsEmptyGeom(p)))

\* C11: the distance a category is buffered with is the override mapping's
\* value when the mapping has the category and 30 m otherwise; without a
\* mapping the built-in table takes its place, and a category of the obstacle
\* dictionary that the table lacks is buffered with 30 m, not skipped.
C11_BufferDistanceOrDefault ==
    call = "forbidden" =>
        LET items == SelectSeq(obstacles_dict, LAMBDA e : e.gdf # <<>>)
        IN  /\ Len(buffer_dists) <= Len(items)
            /\ fz_pc = "done" => Len(buffer_dists) = Len(items)
            /\ \A i \in 1..Len(buffer_dists) :
                  LET c == items[i].name
                  IN  /\ buffer_dists[i].name = c
                      /\ ~custom_buffers.isNone /\ c \in DOMAIN custom_buffers.tbl
                            => buffer_dists[i].buffer_dist = custom_buffers.tbl[c]
                      /\ ~custom_buffers.isNone /\ c \notin DOMAIN custom_buffers.tbl
                            => buffer_dists[i].buffer_dist = DefaultBufferM
                      /\ custom_buffers.isNone /\ c \in DOMAIN DefaultBufferTable
                            => buffer_dists[i].buffer_dist = DefaultBufferTable[c]
                      /\ custom_buffers.isNone /\ c \notin DOMAIN DefaultBufferTable
                            => buffer_dists[i].buffer_dist = DefaultBufferM
                      /\ \A k \in GoodRows(items[i].gdf) :
                            (i < Len(buffer_dists) \/ fz_pc = "done") =>
                               BufferGeom(items[i].gdf[k], buffer_dists[i].buffer_dist)
                                   \in Range(all_buffered_geometries)

\* C11 witness: no mapping is supplied, one category is in the built-in table
\* and the other is not, and a row of the latter is buffered with 30 m.
C11_Witness ==
    /\ call = "forbidden" /\ fz_pc = "done"
    /\ custom_buffers.isNone
    /\ Len(buffer_dists) = 2
    /\ \E i, j \in 1..2 :
          /\ buffer_dists[i].name \in DOMAIN DefaultBufferTable
          /\ buffer_dists[i].buffer_dist = DefaultBufferTable[buffer_dists[i].name]
          /\ buffer_dists[j].name \notin DOMAIN DefaultBufferTable
          /\ buffer_dists[j].buffer_dist = DefaultBufferM
          /\ GoodRows(SelectSeq(obstacles_dict, LAMBDA e : e.gdf # <<>>)[j].gdf) # {}

\* C11 witness with a mapping: the category it lacks gets 30 m.
C11_WitnessOverride ==
    /\ call = "forbidden" /\ fz_pc = "done"
    /\ ~custom_buffers.isNone
    /\ \E i \in 1..Len(buffer_dists) :
          /\ buffer_dists[i].name \notin DOMAIN custom_buffers.tbl
          /\ buffer_dists[i].buffer_dist = DefaultBufferM

ZoneCols(zs) == UNION {zs[i].geometry.cols : i \in 1..Len(zs)}

\* C2: on the free-space path with a positive threshold, no two returned
\* zones overlap, and the returned zones, the discarded sub-threshold
\* fragments and the part of the forbidden region inside the working boundary
\* together make up exactly the working boundary.
C2_FreeSpacePartition ==
    (call = "free_space" /\ zs_pc = "done" /\ ~zs_result.raised
        /\ ~min_zone_area_m2.isNone /\ min_zone_area_m2.v > 0) =>
        LET B == CellsOf(WorkingBoundary(boundary))
            zs == zs_result.zones
            discarded == UNION {zones_list[i].cols :
                                  i \in {j \in 1..Len(zones_list) :
                                            PolygonArea(zones_list[j]) < min_zone_area_m2.v}}
        IN  /\ \A i, j \in 1..Len(zs) :
                    i # j => zs[i].geometry.cols \cap zs[j].geometry.cols = {}
            /\ ZoneCols(zs) \cup discarded \cup (CellsOf(forbidden_zone) \cap B) = B
            /\ ZoneCols(zs) \cap CellsOf(forbidden_zone) = {}
            /\ ZoneCols(zs) \cap discarded = {}

\* C2 witness: two zones returned, a fragment discarded, and a forbidden
\* region that cuts into the boundary.
C2_Witness ==
    /\ call = "free_space" /\ zs_pc = "done" /\ ~zs_result.raised
    /\ ~min_zone_area_m2.isNone /\ min_zone_area_m2.v > 0
    /\ Len(zs_result.zones) = 2
    /\ Len(zones_list) = 3
    /\ CellsOf(forbidden_zone) \cap CellsOf(WorkingBoundary(boundary)) # {}

\* Where a point lies relative to the closed forbidden region.
InInterior(p, fz) ==
    LET F == CellsOf(fz)
    IN  \/ \E c \in F : c * CellM < p.x /\ p.x < (c + 1) * CellM
        \/ \E c \in F : p.x = c * CellM /\ (c - 1) \in F
OnOutline(p, fz) ==
    LET F == CellsOf(fz)
        c == p.x \div CellM
    IN  p.x % CellM = 0 /\ ((c \in F) # ((c - 1) \in F))
StrictlyOutside(p, fz) == ~InInterior(p, fz) /\ ~OnOutline(p, fz)

\* C3: filter_safe_points returns a grid point exactly when it is strictly
\* outside the forbidden region: points in its interior and points on its
\* outline are removed, on the chunked path and on the single pass, and the
\* points kept stay in their order.
C3_SafeIffStrictlyOutside ==
    (call = "points" /\ gp_pc \in {"filtered", "done"}) =>
        /\ \A i \in 1..Len(grid_points) :
              (grid_points[i] \in Range(safe_points))
                  <=> StrictlyOutside(grid_points[i], forbidden_zone)
        /\ \A i \in 1..Len(safe_points) : safe_points[i] \in Range(grid_points)
        /\ \A i, j \in 1..Len(safe_points) : i < j => safe_points[i].label < safe_points[j].label

\* C3 witness: the chunked path over a lattice with a point inside the
\* forbidden region, a point on its outline and a point kept.
C3_Witness ==
    /\ call = "points" /\ gp_pc = "filtered"
    /\ Len(grid_points) > ChunkThreshold
    /\ \E i \in 1..Len(grid_points) : InInterior(grid_points[i], forbidden_zone)
    /\ \E i \in 1..Len(grid_points) : OnOutline(grid_points[i], forbidden_zone)
    /\ Len(safe_points) > 0

\* C3 on the single pass: a lattice of at most ChunkThreshold points.
C3_WitnessSinglePass ==
    /\ call = "points" /\ gp_pc = "filtered"
    /\ Len(grid_points) <= ChunkThreshold
    /\ \E i \in 1..Len(grid_points) : OnOutline(grid_points[i], forbidden_zone)
    /\ Len(safe_points) > 0

\* C4: the chunked path returns the points the single pass over all points
\* returns, in the same order; after every chunk the labels collected are
\* those the single pass keeps among the rows seen so far, whichever chunk a
\* row fell in and however short the last chunk is.
C4_ChunkedEqualsSinglePass ==
    (call = "points" /\ Len(grid_points) > ChunkThreshold) =>
        /\ gp_pc = "filter" =>
              LET seen == IF start_idx < Len(grid_points) THEN start_idx ELSE Len(grid_points)
                  kept == FilterSinglePass(ILoc(grid_points, 0, seen), forbidden_zone)
              IN  safe_indices = [i \in 1..Len(kept) |-> kept[i].label]
        /\ gp_pc \in {"filtered", "done"} =>
              safe_points = FilterSinglePass(grid_points, forbidden_zone)

\* C4 witness: a chunked run whose last chunk is short and in which a kept
\* row and a removed row sit on the two sides of a chunk boundary.
C4_Witness ==
    /\ call = "points" /\ gp_pc = "filtered"
    /\ Len(grid_points) > ChunkThreshold
    /\ Len(grid_points) % ChunkSize # 0
    /\ \E i \in 1..(Len(grid_points) - 1) :
          /\ i % ChunkSize = 0
          /\ SafeMask(grid_points[i], forbidden_zone) # SafeMask(grid_points[i + 1], forbidden_zone)

SizeClasses == {"very_small", "small", "medium", "large", "very_large"}

\* C5: the size class is a total function of area_m2 >= 0 with half-open
\* steps: very_small on [0, 1000), small on [1000, 5000), medium on
\* [5000, 10000), large on [10000, 50000), very_large from 50000 on.
C5_ClassifyHalfOpen ==
    (call = "classify" /\ zs_pc = "done") =>
        LET a == zs_result.zones[1].area_m2
            c == zs_result.zones[1].size_class
        IN  /\ ~zs_result.raised
            /\ Len(zs_result.zones) = 1
            /\ c \in SizeClasses
            /\ (c = "very_small") <=> (0 <= a /\ a < 1000)
            /\ (c = "small") <=> (1000 <= a /\ a < 5000)
            /\ (c = "medium") <=> (5000 <= a /\ a < 10000)
            /\ (c = "large") <=> (10000 <= a /\ a < 50000)
            /\ (c = "very_large") <=> (50000 <= a)

\* C5 witness: an area_m2 exactly on a threshold has been classified.
C5_Witness ==
    /\ call = "classify" /\ zs_pc = "done"
    /\ zs_result.zones[1].area_m2 = 5000
    /\ zs_result.zones[1].size_class = "medium"

\* The candidates that pass the area filter, in extraction order.
Survivors ==
    LET idx == {i \in 1..Len(zones_list) :
                  min_zone_area_m2.isNone \/ PolygonArea(zones_list[i]) >= min_zone_area_m2.v}
        f[k \in 0..Len(zones_list)] ==
            IF k = 0 THEN <<>>
            ELSE IF k \in idx THEN Append(f[k - 1], zones_list[k]) ELSE f[k - 1]
    IN  f[Len(zones_list)]

\* C6: on both paths the area filter keeps exactly the candidates with
\* area_m2 >= min_zone_area_m2, a candidate exactly at the threshold
\* included, in extraction order, and the survivors carry zone_id 1, 2, ..., N
\* in that order.
C6_FilterKeepsOrderAndNumbers ==
    (call \in {"free_space", "point_zones"}
        /\ zs_pc \in {"augment", "point_augment", "done"} /\ ~zs_result.raised) =>
        /\ Len(zones) = Len(Survivors)
        /\ \A i \in 1..Len(zones) :
              /\ zones[i].geometry = Survivors[i]
              /\ zones[i].area_m2 = PolygonArea(Survivors[i])
              /\ zones[i].zone_id = i
        /\ zs_pc = "done" => zs_result.zones = zones

\* C6 witness, free-space path: a candidate below the threshold is dropped
\* ahead of one exactly at it.
C6_Witness ==
    /\ call = "free_space" /\ zs_pc = "done"
    /\ ~min_zone_area_m2.isNone
    /\ Len(zones_list) >= 2
    /\ PolygonArea(zones_list[1]) < min_zone_area_m2.v
    /\ \E i \in 1..Len(zones) : zones[i].area_m2 = min_zone_area_m2.v

\* C6 on the point path: the first candidate is dropped and the survivor,
\* exactly at the threshold, is numbered 1.
C6_WitnessPointPath ==
    /\ call = "point_zones" /\ zs_pc = "done"
    /\ ~min_zone_area_m2.isNone
    /\ Len(zones_list) = 2 /\ Len(zones) = 1
    /\ zones[1].geometry = zones_list[2]
    /\ zones[1].area_m2 = min_zone_area_m2.v
    /\ zones[1].zone_id = 1

\* Whether an operand cannot be used even after buffer(0).
Unrepairable == "broken" \in {validity.boundary, validity.forbidden}
FirstAttemptFails == validity.boundary # "valid" \/ validity.forbidden # "valid"

\* C7: the difference is attempted once; exactly when that attempt fails, a
\* second attempt is made on operands repaired with buffer(0); when the second
\* attempt fails too the error reaches the caller and no zones are returned.
\* There are never more than two attempts and no repair after a first
\* attempt that succeeded.
C7_RetryOnceThenPropagate ==
    (call = "free_space") =>
        /\ attempts <= 2
        /\ repaired <=> attempts = 2
        /\ zs_pc = "except" => (attempts = 1 /\ FirstAttemptFails)
        /\ zs_pc \in {"extract", "filter", "augment", "done"} =>
              /\ attempts >= 1
              /\ attempts = 2 <=> FirstAttemptFails
              /\ zs_result.raised <=> (zs_pc = "done" /\ Unrepairable)
        /\ zs_result.raised => (attempts = 2 /\ zs_result.zones = <<>> /\ zones = <<>>)

\* C7 witness: a first attempt that failed, a repair, and a second attempt
\* that succeeded and led to zones.
C7_Witness ==
    /\ call = "free_space" /\ zs_pc = "done"
    /\ attempts = 2 /\ repaired
    /\ ~zs_result.raised
    /\ Len(zs_result.zones) > 0

\* C7: the second attempt failed and the error reached the caller.
C7_WitnessPropagated ==
    /\ call = "free_space" /\ zs_pc = "done"
    /\ attempts = 2 /\ zs_result.raised

\* The lattice points strictly inside the working boundary.
LatticeInside ==
    LET poly == WorkingBoundary(boundary)
        minx == SetMin(poly.cols) * CellM
        maxx == (SetMax(poly.cols) + 1) * CellM
    IN  {p \in [x : minx..maxx, y : 0..StripM] :
            /\ grid_step_m > 0
            /\ (p.x - minx) % grid_step_m = 0
            /\ p.y % grid_step_m = 0
            /\ Contains(poly, p.x, p.y)}

\* C10: each empty-input condition gives an empty result and no exception:
\* an obstacle dictionary with nothing to buffer gives the empty forbidden
\* MultiPolygon; a boundary with no lattice point or no safe point gives an
\* empty point set; a free space with no zone candidate, or none reaching the
\* threshold, gives an empty zone set; an exception is raised only on failure.
C10_EmptyInputsGiveEmptyResults ==
    /\ (call = "forbidden" /\ fz_pc = "done" /\ BufferedSet = {}) =>
          (~fz_result.raised /\ fz_result.zone = EmptyMultiPolygon)
    /\ (call = "points" /\ gp_pc = "done"
           /\ \A p \in LatticeInside : ~StrictlyOutside(p, forbidden_zone)) =>
          (~gp_result.raised /\ gp_result.points = <<>>)
    /\ (call = "free_space" /\ zs_pc = "done" /\ ~Unrepairable
           /\ \A c \in Range(Components(CellsOf(WorkingBoundary(boundary))
                                            \ CellsOf(forbidden_zone))) :
                 ~min_zone_area_m2.isNone
                    /\ Cardinality(c) * CellM * StripM < min_zone_area_m2.v) =>
          (~zs_result.raised /\ zs_result.zones = <<>>)
    /\ (call = "free_space" /\ zs_result.raised) => Unrepairable

\* C12: thin_points called with a method other than 'uniform' or 'random' is
\* rejected with the configuration error (ValueError) for every point set and
\* every max_points, and returns no point.
C12_UnknownMethodRejected ==
    (call = "thin" /\ th_pc = "done" /\ method \notin {"uniform", "random"}) =>
        /\ thinned.raised = "ValueError"
        /\ thinned.points = <<>>

\* The stride of the uniform method.
Stride == Len(points_gdf) \div max_points.v

ThinningApplies == ~max_points.isNone /\ Len(points_gdf) > max_points.v

\* C14: when thinning applies with max_points >= 1 and the method is
\* 'uniform', the result is exactly the input rows at positions 0, s, 2s, ...
\* with s = N div max_points, in their original order; when max_points is
\* None or N <= max_points the input is returned unchanged.
C14_UniformStride ==
    (call = "thin" /\ th_pc = "done") =>
        /\ (method = "uniform" /\ ThinningApplies /\ max_points.v >= 1) =>
              LET kept == {k \in 0..(Len(points_gdf) - 1) : k % Stride = 0}
              IN  /\ thinned.raised = "none"
                  /\ Len(thinned.points) = Cardinality(kept)
                  /\ \A i \in 1..Len(thinned.points) :
                        /\ (i - 1) * Stride \in kept
                        /\ thinned.points[i] = points_gdf[(i - 1) * Stride + 1]
        /\ ~ThinningApplies =>
              thinned = [raised |-> "none", points |-> points_gdf]

\* C14 witness: six points thinned to at most two, stride three.
C14_Witness ==
    /\ call = "thin" /\ th_pc = "done" /\ method = "uniform"
    /\ Len(points_gdf) = 6 /\ ~max_points.isNone /\ max_points.v = 2
    /\ thinned.points = <<points_gdf[1], points_gdf[4]>>

\* C14 witness for the unchanged case: max_points at least the point count.
C14_WitnessUnchanged ==
    /\ call = "thin" /\ th_pc = "done" /\ method = "uniform"
    /\ ~max_points.isNone /\ Len(points_gdf) = max_points.v /\ max_points.v >= 1
    /\ thinned.points = points_gdf

\* C15: thin_points never returns more than max_points points, for every N
\* and every max_points >= 0 and either method; the uniform method returns
\* exactly max_points points when N > max_points and max_points divides N.
C15_AtMostMaxPoints ==
    (call = "thin" /\ th_pc = "done" /\ ~max_points.isNone
        /\ method \in {"uniform", "random"}) =>
        /\ thinned.raised = "none"
        /\ Len(thinned.points) <= max_points.v
        /\ (method = "uniform" /\ ThinningApplies /\ max_points.v >= 1
               /\ Len(points_gdf) % max_points.v = 0)
              => Len(thinned.points) = max_points.v

\* The categories looped over whose buffer distance is not positive.
NonPositiveBuffers ==
    {i \in 1..Len(ObstacleItems(obstacles_dict)) :
        BufferDist(custom_buffers, ObstacleItems(obstacles_dict)[i].name) <= 0}

\* C13: a non-positive grid step and a non-positive buffer distance are
\* rejected before any geometric work: with grid_step_m <= 0 no lattice point
\* is generated or tested and with a buffer distance <= 0 no geometry is
\* buffered, and the call ends in an error, not in an empty result.
C13_NonPositiveRejected ==
    /\ (call = "points" /\ grid_step_m <= 0) =>
          /\ grid_points = <<>> /\ safe_points = <<>>
          /\ gp_pc = "done" => gp_result.raised
    /\ (call = "forbidden" /\ NonPositiveBuffers # {}) =>
          /\ buffer_attempts = <<>> /\ all_buffered_geometries = <<>>
          /\ fz_pc = "done" => fz_result.raised

\* The coordinates of the rows of a frame, in order.
PointsOf(gdf) == [i \in 1..Len(gdf) |-> [x |-> gdf[i].x, y |-> gdf[i].y]]

\* C16: generate_grid_points returns exactly the lattice points
\* (minx + i*step, miny + j*step), i, j >= 0, of the bounding box that lie
\* strictly inside the boundary, each once, ordered by increasing x and for
\* equal x by increasing y; the same boundary and step give the same sequence.
C16_LatticeStrictlyInsideInOrder ==
    (call = "points" /\ gp_pc # "grid") =>
        LET pts == PointsOf(grid_points)
            poly == WorkingBoundary(boundary)
            minx == SetMin(poly.cols) * CellM
            maxx == (SetMax(poly.cols) + 1) * CellM
        IN  /\ Range(pts) = LatticeInside
            /\ \A i \in 1..Len(pts) :
                  /\ minx < pts[i].x /\ pts[i].x < maxx
                  /\ 0 < pts[i].y /\ pts[i].y < StripM
            /\ Len(pts) = Cardinality(LatticeInside)
            /\ \A i, j \in 1..Len(pts) :
                  i < j => \/ pts[i].x < pts[j].x
                           \/ pts[i].x = pts[j].x /\ pts[i].y < pts[j].y
            /\ grid_points = GenerateGridPoints(poly, grid_step_m)

\* C16 witness: a lattice of several columns and several rows, with lattice
\* points of the bounding box lying on the boundary line and left out.
C16_Witness ==
    /\ call = "points" /\ gp_pc # "grid"
    /\ \E i, j \in 1..Len(grid_points) :
          grid_points[i].x = grid_points[j].x /\ grid_points[i].y < grid_points[j].y
    /\ \E i, j \in 1..Len(grid_points) : grid_points[i].x < grid_points[j].x
    /\ \A i \in 1..Len(grid_points) :
          grid_points[i].x # SetMin(WorkingBoundary(boundary).cols) * CellM
          /\ grid_points[i].y # 0

\* The total area of a free space.
FreeArea(fs) == Cardinality(CellsOf(fs)) * CellM * StripM

\* C17: raising one category's buffer distance, all else fixed, never
\* enlarges the free space: the free space after the increase is contained
\* in the free space before it, so its total area does not increase.
C17_RaisingBufferShrinksFreeSpace ==
    (call = "monotone" /\ mo_pc = "done") =>
        /\ CellsOf(free_space_after) \subseteq CellsOf(free_space_before)
        /\ FreeArea(free_space_after) <= FreeArea(free_space_before)

\* C17 witness: the raised distance takes away part of the free space and
\* leaves part of it.
C17_Witness ==
    /\ call = "monotone" /\ mo_pc = "done"
    /\ CellsOf(free_space_after) # {}
    /\ CellsOf(free_space_after) # CellsOf(free_space_before)
    /\ FreeArea(free_space_after) < FreeArea(free_space_before)

\* C18: with dissolve the union of the point buffers is normalized by the
\* rule of the forbidden-region merge: a Polygon gives one zone, a
\* MultiPolygon its members, a mixed collection its polygon members with
\* nested MultiPolygons unpacked, nothing polygonal no zone; without dissolve
\* the candidates are one buffer per input point, unmerged, in input order.
C18_DissolveNormalizedLikeMerge ==
    /\ (call = "dissolve" /\ zs_pc # "dissolve") =>
          zones_list = SelectSeq(FlatPolygons(merged_geometry), LAMBDA g : ~IsEmptyGeom(g))
    /\ (call = "point_zones" /\ zs_pc # "buffer_points" /\ safe_points # <<>>) =>
          IF dissolve
          THEN LET comps == Components(UNION {PointBuffer(safe_points[i], zone_radius_m).cols :
                                                 i \in 1..Len(safe_points)})
               IN  zones_list = [i \in 1..Len(comps) |-> Polygon(comps[i])]
          ELSE /\ Len(zones_list) = Len(safe_points)
               /\ \A i \in 1..Len(safe_points) :
                     zones_list[i] = PointBuffer(safe_points[i], zone_radius_m)

\* A zone that went through the filter, the numbering, the classifier and
\* the metadata stage.
FullyStaged(z) ==
    /\ min_zone_area_m2.isNone \/ z.area_m2 >= min_zone_area_m2.v
    /\ z.zone_id >= 1
    /\ z.area_m2 = PolygonArea(z.geometry)
    /\ z.size_class \in SizeClasses
    /\ z.meta.set

\* C19: with classification and metadata enabled, every zone returned by
\* generate_safe_zones, for every safe-point set and every other argument,
\* has passed the area filter and carries zone_id, area_m2, size_class,
\* perimeter_m, compactness and centroid, as every zone returned by
\* create_zones_from_free_space does.
C19_PointPathSameStages ==
    (call \in {"free_space", "point_zones"} /\ zs_pc = "done" /\ ~zs_result.raised
        /\ classify_size /\ add_metadata) =>
        \A i \in 1..Len(zs_result.zones) : FullyStaged(zs_result.zones[i])

\* C20: every zone returned by either zone builder, for every
\* min_zone_area_m2 including None and for a boundary entirely covered by the
\* forbidden region, has zone_id >= 1 and area_m2 > 0, and once the metadata
\* is added perimeter_m > 0, so compactness is never computed with a zero
\* perimeter.
C20_ZonesHavePositiveAreaAndPerimeter ==
    (call \in {"free_space", "point_zones"} /\ zs_pc = "done" /\ ~zs_result.raised) =>
        \A i \in 1..Len(zs_result.zones) :
            LET z == zs_result.zones[i]
            IN  /\ z.zone_id >= 1
                /\ z.area_m2 > 0
                /\ z.meta.set => (z.meta.perimeter_m > 0 /\ z.meta.compact_den > 0)

\* C21: the candidate list built from the difference result holds single
\* Polygons only, whether the result is a Polygon, a MultiPolygon or a mixed
\* collection with nested MultiPolygon members; every polygonal part of the
\* result is in the list exactly once, in order, and nothing else is.
C21_CandidatesAreSinglePolygons ==
    (call \in {"extract", "free_space"} /\ zs_pc \in {"filter", "augment", "done"}
        /\ ~zs_result.raised) =>
        /\ \A i \in 1..Len(zones_list) : zones_list[i].type = "Polygon"
        /\ zones_list = FlatPolygons(free_space)

\* C21 witness: a collection of a Polygon, a MultiPolygon of two members and
\* a LineString gives the three Polygons.
C21_Witness ==
    /\ call = "extract" /\ zs_pc # "extract"
    /\ free_space.type = "GeometryCollection"
    /\ \E i \in 1..Len(free_space.geoms) : free_space.geoms[i].type = "MultiPolygon"
    /\ \E i \in 1..Len(free_space.geoms) : free_space.geoms[i].type = "LineString"
    /\ \E i \in 1..Len(free_space.geoms) : free_space.geoms[i].type = "Polygon"
    /\ Len(zones_list) = 3

\* The members of the boundary's union other than the first largest one.
OtherMembers ==
    LET comps == Components(boundary)
        sizes == {Cardinality(comps[i]) : i \in 1..Len(comps)}
        big == CHOOSE i \in 1..Len(comps) :
                  /\ \A n \in sizes : Cardinality(comps[i]) >= n
                  /\ \A j \in 1..(i - 1) : Cardinality(comps[j]) < Cardinality(comps[i])
    IN  {comps[i] : i \in (1..Len(comps)) \ {big}}

\* The point lies in or on the outline of a member.
InMember(p, m) == \E c \in m : c * CellM <= p.x /\ p.x <= (c + 1) * CellM

\* C22: when the boundary unions to a MultiPolygon both generate_safe_points
\* and create_zones_from_free_space work on its largest-area member alone: no
\* grid point, no returned point and no returned zone lies in another member.
C22_LargestMemberOnly ==
    /\ (call = "points" /\ gp_pc # "grid") =>
          \A m \in OtherMembers :
              /\ \A i \in 1..Len(grid_points) : ~InMember(grid_points[i], m)
              /\ \A i \in 1..Len(gp_result.points) : ~InMember(gp_result.points[i], m)
    /\ (call = "free_space" /\ zs_pc \in {"extract", "filter", "augment", "done"}
           /\ ~zs_result.raised) =>
          \A m \in OtherMembers :
              /\ CellsOf(free_space) \cap m = {}
              /\ ZoneCols(zones) \cap m = {}
              /\ ZoneCols(zs_result.zones) \cap m = {}

\* C22 witness: a boundary of two members, the smaller listed first, and
\* points returned from the larger one.
C22_Witness ==
    /\ call = "points" /\ gp_pc = "done"
    /\ OtherMembers # {}
    /\ \A m \in OtherMembers : \A c \in m : c < SetMin(WorkingBoundary(boundary).cols)
    /\ gp_result.points # <<>>

\* C22 witness on the free-space path: a zone returned from the larger of
\* two members.
C22_WitnessZones ==
    /\ call = "free_space" /\ zs_pc = "done"
    /\ OtherMembers # {}
    /\ zs_result.zones # <<>>

\* What the stages after the filter must leave alone in a zone.
Kept(z) == <<z.geometry, z.area_m2, z.zone_id>>

\* C23: after the area filter a zone is only augmented: the classifier and
\* the metadata stage add size_class and perimeter_m, compactness, centroid
\* and leave every zone's geometry, area_m2 and zone_id, the number of zones
\* and their order unchanged; an empty zone set is returned unchanged.
C23_AugmentOnly ==
    [][(call \in {"free_space", "point_zones"} /\ zs_pc \in {"augment", "point_augment"}) =>
          /\ Len(zones') = Len(zones)
          /\ \A i \in 1..Len(zones) :
                /\ Kept(zones'[i]) = Kept(zones[i])
                /\ classify_size => zones'[i].size_class = ClassifySize(zones[i].area_m2)
                /\ ~classify_size => zones'[i].size_class = zones[i].size_class
                /\ zones'[i].meta.set =>
                      zones'[i].meta.perimeter_m = PolygonPerimeter(zones[i].geometry)
          /\ zs_result'.zones = zones'
          /\ ClassifyZonesBySize(<<>>) = <<>>
          /\ AddZoneMetadata(<<>>) = <<>>]_vars

\* C23 witness: two zones, classified and with metadata, numbered 1 and 2 in
\* extraction order.
C23_Witness ==
    /\ call = "free_space" /\ zs_pc = "done"
    /\ Len(zs_result.zones) = 2
    /\ \A i \in 1..2 :
          /\ zs_result.zones[i].zone_id = i
          /\ zs_result.zones[i].geometry = zones_list[i]
          /\ zs_result.zones[i].size_class \in SizeClasses
          /\ zs_result.zones[i].meta.set

\* The geometries whose expansion failed.
SkippedCount == Len(buffer_attempts) - Len(all_buffered_geometries)

\* C24: create_forbidden_zone_with_custom_buffers surfaces to its caller the
\* number of geometries skipped because their expansion failed: what it
\* returns carries that count.
C24_SkippedCountSurfaced ==
    (call = "forbidden" /\ fz_pc = "done" /\ SkippedCount > 0) =>
        /\ "skipped" \in DOMAIN fz_result
        /\ fz_result.skipped = SkippedCount

\* The attempts made and the index of the first one that succeeds, if any.
GeocodeCalls == Cardinality({i \in 1..Len(cb_log) : cb_log[i] = "geocode"})

FirstSuccess == {i \in 1..max_retries : geocoder[i] = "ok" /\ \A j \in 1..(i - 1) : geocoder[j] = "fail"}

\* C25: for every max_retries >= 0 and every pattern of geocoder failures,
\* get_city_boundary makes at most max_retries attempts, waits only between a
\* failed attempt and the next one, returns the result of the first successful
\* attempt without further attempts, and raises an Exception when no attempt
\* succeeded; it never returns without a boundary.
C25_RetriesThenRaises ==
    (call = "city_boundary") =>
        /\ GeocodeCalls <= max_retries
        /\ \A i \in 1..Len(cb_log) :
              cb_log[i] = "sleep" =>
                  /\ i > 1 /\ cb_log[i - 1] = "geocode"
                  /\ cb_pc = "done" => (i < Len(cb_log) /\ cb_log[i + 1] = "geocode")
        /\ cb_pc = "done" =>
              /\ cb_result # "None"
              /\ \A i \in FirstSuccess : cb_result = "boundary" /\ GeocodeCalls = i
              /\ FirstSuccess = {} => (cb_result = "Exception" /\ GeocodeCalls = max_retries)

\* floor((longitude + 180) / 6) + 1
ZoneOf(lo) == ((lo + 180) \div 6) + 1

\* C26: for every centroid with longitude in [-180, 180] and latitude in
\* [-90, 90] the EPSG code returned is 32600 + z for latitude >= 0 and
\* 32700 + z for latitude < 0, where z = floor((longitude + 180) / 6) + 1 is
\* a UTM zone number in 1..60.
C26_UtmZoneInRange ==
    (call = "utm" /\ utm_pc = "done") =>
        /\ ZoneOf(lon) \in 1..60
        /\ lat >= 0 => epsg_code = 32600 + ZoneOf(lon)
        /\ lat < 0 => epsg_code = 32700 + ZoneOf(lon)

\* C27: no loader propagates a download failure: each makes at most
\* max_retries attempts and, when all fail, returns an empty dataset, so
\* load_all_obstacles always completes and its result holds a dataset,
\* possibly empty, under each of the keys buildings, roads, parking, railways
\* and industrial, none of them replaced by the split of the sensitive areas.
C27_LoadersNeverPropagate ==
    (call = "load_all_obstacles") =>
        /\ downloads <= max_retries
        /\ \A n \in DOMAIN obstacles : obstacles[n] \in {"features", "empty"}
        /\ lo_pc = "done" =>
              /\ lo_result = "dict"
              /\ Range(DedicatedLoaders) \subseteq DOMAIN obstacles

\* C28: every zone the point method returns (create_zones_from_points on the
\* points filter_safe_points keeps, for any positive zone radius, dissolved
\* or not) is disjoint from the forbidden region.
C28_PointZonesAvoidForbidden ==
    (call = "point_method" /\ zs_pc = "done" /\ ~zs_result.raised) =>
        ZoneCols(zs_result.zones) \cap CellsOf(forbidden_zone) = {}

\* C29: main returns 1 only when a stage failed; on every path on which the
\* stages complete it returns 0, also when no safe point is found and when
\* --generate-zones gives zero zones, with or without --save-obstacles; an
\* interrupt gives 130.
C29_ExitStatus ==
    (call = "main" /\ main_pc = "exit") =>
        /\ (exit_code = 1) => (stage_raised = "Exception")
        /\ (stage_raised = "none") => (exit_code = 0)
        /\ (stage_raised = "KeyboardInterrupt") => (exit_code = 130)

\* C30: in the exported KML every Placemark's styleUrl is "#" followed by the
\* id of a Style defined in the same document, whatever the size class.
C30_StyleUrlsResolve ==
    (call = "kml" /\ kml_pc = "done") =>
        \A i \in 1..Len(kml_style_urls) :
            /\ kml_style_urls[i][1] = "#"
            /\ Tail(kml_style_urls[i]) \in kml_styles

====
